---- MODULE Spec2Model ----
(***************************************************************************)
(* language-fudomo: the transformation run orchestrator of the Atom        *)
(* package (runTransformationConfigFile, its post-process children and     *)
(* the process-wide registries runningPostprocessors and                   *)
(* killedPostprocessors).                                                  *)
(*                                                                         *)
(* JavaScript runs the package on one thread: a run is cut into the        *)
(* continuations between its awaits, and each continuation is one action.  *)
(***************************************************************************)
EXTENDS Integers, Sequences, FiniteSets, TLC

VARIABLES
  autoTransformPaths,     \* keys of the setting language-fudomo.autoTransformPaths, in key order
  batches,                \* change-event batches still to come
  watchers,               \* one record per invocation of the onDidChangeFiles handler
  project,                \* the config files the user can trigger (tree view)
  files,                  \* what was written to the file system since the start
  validations,            \* one record per invocation of validateData
  linterMessages,         \* indieLinter: the messages set for each file
  triggers,               \* invocations of runTransformationConfigFile still to come
  runs,                   \* one record per invocation, in invocation order
  runningPostprocessors,  \* registry key -> pid
  killedPostprocessors,   \* set of pids (keys of the object; the value is a dummy)
  generations,            \* one record per invocation of generateFunctionsForDecompositionFile
  skeletons               \* the functions files of the directory: name -> content

vars == <<autoTransformPaths, batches, watchers,
          project, files, validations, linterMessages,
          triggers, runs, runningPostprocessors, killedPostprocessors,
          generations, skeletons>>

watcherVars == <<autoTransformPaths, batches, watchers>>

linterVars == <<validations, linterMessages>>

generatorVars == <<generations, skeletons>>

\* ------------------------------------------------------------------ bounds
PipelineRuns == 1     \* invocations under Spec (every kind of config file)
RelaunchRuns == 2     \* invocations under SpecRelaunch (post-processed configs)
PostprocessRuns == 3  \* invocations under SpecPostprocess (post-processed configs)
BatchRuns == 2        \* invocations under SpecBatch (one config file of each outcome)
SelectionRuns == 2    \* invocations under SpecSelection (a failing and two working configs)
LaunchRuns == 3       \* invocations under SpecLaunch (a command that spawns, one that does not)
ExitRuns == 2         \* invocations under SpecExit (every launched child exits in the end)
AutoBatches == 1      \* change-event batches under SpecAuto (registry switched on and off)
EditRuns == 2         \* invocations under SpecEdit (the config file is edited between them)
GenerateRuns == 2     \* invocations of generateFunctionsForDecompositionFile (SpecGenerate)
MaxSuffix == 2        \* the largest dedup suffix of a functions file that exists at the start
ValidateRuns == 1     \* invocations of validateData under SpecValidate
MaxMarkers == 2       \* markers one syntax error of the data file carries
NotifyRuns == 1       \* invocations by hand, and change-event batches, under SpecNotify
WatcherBatches == 1   \* change-event batches under SpecWatcher
MaxEvents == 2        \* events in one batch
MaxPids == 3          \* process ids the operating system hands out

Pids == 1..MaxPids

\* ------------------------------------------------------------- JS values
Undefined == "undefined"
Null == <<"null">>   \* null where a path, a message or a detail is expected

Required == {"decomposition", "functions", "data", "output"}

\* A file name is the sequence of its characters.
F_js == <<"f", ".", "j", "s">>
F_py == <<"f", ".", "p", "y">>
F_zz == <<"f", ".", "z", "z">>
F_none == <<"f">>
F_dot == <<".", "j", "s">>
F_dir == <<"d", ".", "j", "s", "/", "f">>

FunctionsNames == {F_js, F_py, F_zz, F_none, F_dot, F_dir}
RunnerIds == {Undefined, "javascript", "javascriptvm", "python", "nope"}

\* --------------------------------------------------------- the file system
\* What a config file and the files it names hold: the outcome of every read,
\* load, parse and write the run of that config file performs.
Healthy == [
  exists |-> TRUE,            \* configFile.read gives text, not null
  yaml |-> "map",             \* "map" | "empty" (YAML.parse gives null) | "invalid" (it throws)
  keys |-> Required,          \* the keys the document sets
  runnerId |-> Undefined,
  functions |-> F_js,
  postprocess |-> Undefined,
  dataRealPath |-> "same",    \* dataFile.getRealPath: "same" (the path itself) | "link"
                              \* (the target of a symlink) | "missing" (it rejects)
  dataLoads |-> TRUE,         \* loadModel returns
  decompExists |-> TRUE,      \* decompFile.read gives text
  funcRealPath |-> TRUE,      \* funcFile.getRealPath resolves
  runnerConstructs |-> TRUE,  \* new RunnerClass(...) returns
  decompRealPath |-> TRUE,    \* decompFile.getRealPath resolves
  parse |-> "ok",             \* parseFudomo: "ok" | "hasError" | "throws"
  transform |-> "ok",         \* transform: "ok" | "computeException" | "unsupportedPython"
                              \* (a compute exception caused by the interpreter's version)
                              \* | "error"
  output |-> <<"o">>,         \* config.output, relative to the config file's directory
  writable |-> TRUE,          \* outputFile.write resolves
  exec |-> "ok"               \* child_process.exec: "ok" | "throws" (no child is spawned)
]

Postprocessed == [Healthy EXCEPT !.postprocess = "echo hi"]

MissingKeyContents == { [Healthy EXCEPT !.keys = k] : k \in (SUBSET Required) \ {Required} }

RunnerContents ==
  { [Healthy EXCEPT !.runnerId = id, !.functions = f] : id \in RunnerIds, f \in FunctionsNames }

BrokenContents == {
  [Postprocessed EXCEPT !.exists = FALSE],
  [Postprocessed EXCEPT !.yaml = "invalid"],
  [Postprocessed EXCEPT !.yaml = "empty"],
  [Postprocessed EXCEPT !.dataLoads = FALSE],
  [Postprocessed EXCEPT !.decompExists = FALSE],
  [Postprocessed EXCEPT !.funcRealPath = FALSE],
  [Postprocessed EXCEPT !.runnerConstructs = FALSE],
  [Postprocessed EXCEPT !.decompRealPath = FALSE],
  [Postprocessed EXCEPT !.parse = "hasError"],
  [Postprocessed EXCEPT !.parse = "throws"],
  [Postprocessed EXCEPT !.transform = "computeException"],
  [Postprocessed EXCEPT !.transform = "unsupportedPython"],
  [Postprocessed EXCEPT !.transform = "error"],
  [Postprocessed EXCEPT !.writable = FALSE] }

\* A post-processed configuration whose output lies in a subdirectory.
OutputContents == { [Postprocessed EXCEPT !.output = <<"s", "/", "o">>] }

\* Configurations whose data path is a symlink, or names no file.
DataPathContents == {
  [Healthy EXCEPT !.dataRealPath = "link"],
  [Healthy EXCEPT !.dataRealPath = "missing", !.dataLoads = FALSE] }

\* A post-processed configuration whose command cannot be spawned.
ExecContents == { [Postprocessed EXCEPT !.exec = "throws"] }

RECURSIVE SetToSeq(_)
SetToSeq(S) == IF S = {} THEN <<>> ELSE LET x == CHOOSE y \in S : TRUE IN <<x>> \o SetToSeq(S \ {x})

\* The disk: config file number k holds ContentTable[k]. Files 1 and 2 are two
\* post-processed configurations of equal content.
ContentTable ==
  <<Postprocessed, Postprocessed>>
    \o SetToSeq(MissingKeyContents \cup RunnerContents \cup BrokenContents \cup OutputContents
               \cup DataPathContents \cup ExecContents)

ConfigPath(k) == <<"config", k>>
\* What the config file holds now: what the user saved last, or what it held
\* at the start.
Disk(configFilePath) ==
  ContentTable[IF configFilePath \in DOMAIN files.config
               THEN files.config[configFilePath]
               ELSE configFilePath[2]]

PipelineProject == { ConfigPath(k) : k \in 2..Len(ContentTable) }
PostprocessProject == { ConfigPath(1), ConfigPath(2) }

\* The config file that holds the given content.
ConfigWith(content) ==
  ConfigPath(CHOOSE k \in 3..Len(ContentTable) : ContentTable[k] = content)

\* The registered configurations, in the key order of the setting: a deleted
\* one, a post-processed one, an unparseable one, one whose data path is a
\* symlink and one whose data path names no file.
WatcherProject ==
  << ConfigWith([Postprocessed EXCEPT !.exists = FALSE]),
     ConfigPath(1),
     ConfigWith([Postprocessed EXCEPT !.yaml = "invalid"]),
     ConfigWith([Healthy EXCEPT !.dataRealPath = "link"]),
     ConfigWith([Healthy EXCEPT !.dataRealPath = "missing", !.dataLoads = FALSE]) >>

\* Two post-processed configurations: the command of one cannot be spawned.
LaunchProject ==
  { ConfigPath(1), ConfigWith([Postprocessed EXCEPT !.exec = "throws"]) }

\* The configurations the user can register: one that works and one that
\* cannot be parsed.
AutoProject ==
  { ConfigPath(1), ConfigWith([Postprocessed EXCEPT !.yaml = "invalid"]) }

\* One configuration of each outcome: success with and without post-process,
\* definition error, run error (before and after the transformation) and
\* compute exception.
BatchContents == {
  Healthy,
  [Postprocessed EXCEPT !.exists = FALSE],
  [Postprocessed EXCEPT !.parse = "hasError"],
  [Postprocessed EXCEPT !.transform = "computeException"],
  [Postprocessed EXCEPT !.writable = FALSE] }

\* A selection in the tree view: a post-processed configuration and two that
\* fail, one early and one late.
SelectionContents == {
  [Postprocessed EXCEPT !.exists = FALSE],
  [Postprocessed EXCEPT !.writable = FALSE] }

SelectionProject ==
  { ConfigPath(1) }
    \cup { ConfigPath(k) : k \in { i \in 3..Len(ContentTable) : ContentTable[i] \in SelectionContents } }

BatchProject ==
  { ConfigPath(1) }
    \cup { ConfigPath(k) : k \in { i \in 3..Len(ContentTable) : ContentTable[i] \in BatchContents } }

\* Files named by a config file, resolved against its directory (baseDir.getFile).
DataFile(configFilePath) == <<"data", configFilePath[2]>>
FuncFile(configFilePath) == <<"functions", configFilePath[2]>>
DecompFile(configFilePath) == <<"decomposition", configFilePath[2]>>
OutputFile(configFilePath) == <<"output", configFilePath[2]>>
BaseDir(configFilePath) == <<"dir", configFilePath[2]>>

\* fs.realpath: the data path of a configuration can be a symlink.
RealPath(p) ==
  IF p[1] = "data"
  THEN IF Disk(ConfigPath(p[2])).dataRealPath = "link" THEN <<"target", p[2]>> ELSE p
  ELSE p

\* ------------------------------------------------------------ notifications
showSuccess(message, open) ==
  [via |-> "showSuccess", message |-> message, detail |-> Null, open |-> open]

showError(message, detail, open) ==
  [via |-> "showError", message |-> message, detail |-> detail, open |-> open]

\* The description that tells the user to configure a python3 executable.
PythonRemediation ==
  <<"# Error: Unsupported Python version", "python-executable",
    "python-executable-<platform>">>

\* error.toHtml(basePath)
toHtml(error) == <<"html">> \o error.message

showFudomoComputeException(error) ==
  [via |-> "showFudomoComputeException",
   message |-> <<"An error occurred running the Fudomo transformation">>,
   detail |-> IF error.cause = "UnsupportedPythonVersionError"
              THEN PythonRemediation
              ELSE toHtml(error),
   open |-> Null]

\* The notification of a decomposition whose parse result has hasError set.
definitionErrorNotification(configFilePath) ==
  [via |-> "addError",
   message |-> <<"Could not parse Fudomo decomposition definition">>,
   detail |-> <<"excerpts">>, open |-> DecompFile(configFilePath)]

\* ------------------------------------------------------------------- Phase
Phase(activity, openablePath) ==
  [instance |-> "Phase", activity |-> activity, openablePath |-> openablePath]
\* The code also assigns plain strings to `phase`.
PhaseString(text) == [instance |-> "String", activity |-> text, openablePath |-> Null]

Error(message) == [type |-> "Error", message |-> message]

\* A FudomoComputeException and the constructor name of its cause.
FudomoComputeException(message, cause) ==
  [type |-> "FudomoComputeException", message |-> message, cause |-> cause]

\* The handler that has no renderer for compute exceptions.
handleTransformError_Generic(error, phase) ==
  LET activity == phase.activity
      openablePath == IF phase.instance = "Phase" THEN phase.openablePath ELSE Null
  IN showError(<<"Error while", activity>>, error.message, openablePath)

\* The handler that never offers a file to open.
handleTransformError_NoOpenablePath(error, phase) ==
  IF error.type = "FudomoComputeException" THEN showFudomoComputeException(error)
  ELSE showError(<<"Error while", phase.activity>>, error.message, Null)

handleTransformError(error, phase) ==
  IF error.type = "FudomoComputeException" THEN showFudomoComputeException(error)
  ELSE LET activity == phase.activity
           openablePath == IF phase.instance = "Phase" THEN phase.openablePath ELSE Null
       IN showError(<<"Error while", activity>>, error.message, openablePath)

\* ------------------------------------------------------- path.extname
\* The index of the last occurrence of ch in p, 0 when there is none.
RECURSIVE LastIndexOf(_, _)
LastIndexOf(p, ch) ==
  IF p = <<>> THEN 0
  ELSE IF p[Len(p)] = ch THEN Len(p) ELSE LastIndexOf(SubSeq(p, 1, Len(p) - 1), ch)

Basename(p) == SubSeq(p, LastIndexOf(p, "/") + 1, Len(p))

\* node's path.extname: from the last "." of the last path portion to its end;
\* empty when there is no "." or when the portion starts with its only ".".
Extname(p) ==
  LET base == Basename(p)
      dot == LastIndexOf(base, ".")
  IN IF dot <= 1 THEN <<>> ELSE SubSeq(base, dot, Len(base))

\* String.prototype.slice(1)
Slice1(str) == IF str = <<>> THEN <<>> ELSE Tail(str)

FunctionsExtension(config) == Slice1(Extname(config.functions))

\* node's path.dirname of a relative path: empty when it has no "/".
Dirname(p) == SubSeq(p, 1, LastIndexOf(p, "/") - 1)

\* The directory of baseDir.getFile(outputPath).
OutputDir(configFilePath) == BaseDir(configFilePath) \o Dirname(Disk(configFilePath).output)

NullClass == "null"   \* let RunnerClass = null

\* --------------------------------------------- fudomo-transform's registry
getRunnerClassById(id) ==
  IF id \in {"javascript", "javascriptvm", "python"} THEN id ELSE Undefined

getRunnerClassByFileExtension(extension) ==
  IF extension = <<"j", "s">> THEN "javascript"
  ELSE IF extension = <<"p", "y">> THEN "python"
  ELSE Undefined

\* --------------------------------------------------------- runner selection
\* The selection without the substitution of javascriptvm for javascript.
SelectRunnerClass_NoSubstitution(config) ==
  IF config.runnerId # Undefined
  THEN getRunnerClassById(config.runnerId)
  ELSE getRunnerClassByFileExtension(FunctionsExtension(config))

SelectRunnerClass(config) ==
  IF config.runnerId # Undefined
  THEN IF config.runnerId = "javascript"
       THEN getRunnerClassById("javascriptvm")
       ELSE getRunnerClassById(config.runnerId)
  ELSE LET extension == FunctionsExtension(config)
       IN IF extension = <<"j", "s">>
          THEN getRunnerClassById("javascriptvm")
          ELSE getRunnerClassByFileExtension(extension)

\* The error that names the extension even when runnerId is set.
RunnerNotFoundError_ExtensionOnly(config) ==
  Error(<<"Can not find decomposition function runner class for file extension \"">>
          \o FunctionsExtension(config) \o <<"\".">>)

RunnerNotFoundError(config) ==
  IF config.runnerId # Undefined
  THEN Error(<<"Can not find decomposition function runner class with id \"",
               config.runnerId, "\".">>)
  ELSE Error(<<"Can not find decomposition function runner class for file extension \"">>
               \o FunctionsExtension(config) \o <<"\".">>)

NotSetError(key) ==
  Error(<<"Fudomo transformation config file error: \"", key, "\" attribute not set.">>)

\* -------------------------------------------------------------- one run
NoConfig ==
  [parsed |-> FALSE, keys |-> {}, runnerId |-> Undefined, functions |-> <<>>,
   postprocess |-> Undefined]

NoChild == [pid |-> 0, state |-> "none", killIssued |-> FALSE, error |-> FALSE, cwd |-> Null]

\* The locals of one invocation of runTransformationConfigFile, what it did to
\* the outside (io) and what it told the user (notes).
NewRun(configFilePath, notifyOnSuccess) ==
  [configFilePath |-> configFilePath,
   notifyOnSuccess |-> notifyOnSuccess,
   pc |-> "readConfig",
   phase |-> Phase("reading config file", configFilePath),
   config |-> NoConfig,
   RunnerClass |-> NullClass,
   functionRunner |-> NullClass,
   io |-> {<<"read", configFilePath>>},
   notes |-> <<>>,
   busyMessage |-> "none",   \* "none" | "shown" (reportBusy) | "disposed"
   resolved |-> FALSE,       \* the promise of the invocation has resolved
   child |-> NoChild]

\* The catch of a package that keeps one phase for all runs: the phase of the
\* run that started last.
Fail_SharedPhase(run, error) ==
  [run EXCEPT !.notes = Append(@, handleTransformError(error, runs[Len(runs)].phase)),
              !.pc = "done", !.resolved = TRUE]

\* The catch that ends the run and tells nobody.
Fail_Unreported(run, error) == [run EXCEPT !.pc = "done", !.resolved = TRUE]

\* catch (error) { this.handleTransformError(error, phase, projectPath); }
Fail(run, error) ==
  [run EXCEPT !.notes = Append(@, handleTransformError(error, run.phase)), !.pc = "done", !.resolved = TRUE]

\* const configText = await configFile.read(true); ... up to the await of decompFile.read
\* A read that is served from what the file held at the start.
ConfigReadDone_Cached(run) ==
  LET path == run.configFilePath
      disk == ContentTable[path[2]]
      parsing == [run EXCEPT !.phase = Phase("parsing config file", path)]
      config == [parsed |-> TRUE, keys |-> disk.keys, runnerId |-> disk.runnerId,
                 functions |-> disk.functions, postprocess |-> disk.postprocess]
      parsed == [parsing EXCEPT !.config = config]
      funcRead == [parsed EXCEPT !.io = @ \cup {<<"read", FuncFile(path)>>}]
      loading == [funcRead EXCEPT !.phase = Phase("loading data", DataFile(path)),
                                  !.io = @ \cup {<<"loadModel", DataFile(path)>>}]
  IN IF ~disk.exists THEN Fail(run, Error(<<"Config file not found.">>))
     ELSE IF disk.yaml = "invalid" THEN Fail(parsing, Error(<<"YAMLSyntaxError">>))
     ELSE IF disk.yaml = "empty"
       THEN Fail(parsing, Error(<<"Cannot read property 'decomposition' of null">>))
     ELSE IF "decomposition" \notin config.keys THEN Fail(parsed, NotSetError("decomposition"))
     ELSE IF "functions" \notin config.keys THEN Fail(parsed, NotSetError("functions"))
     ELSE IF "data" \notin config.keys THEN Fail(funcRead, NotSetError("data"))
     ELSE IF "output" \notin config.keys THEN Fail(funcRead, NotSetError("output"))
     ELSE IF ~disk.dataLoads THEN Fail(loading, Error(<<"model load error">>))
     ELSE [loading EXCEPT !.phase = PhaseString("loading decomposition file"),
                          !.io = @ \cup {<<"read", DecompFile(path)>>},
                          !.pc = "readDecomp"]

ConfigReadDone(run) ==
  LET path == run.configFilePath
      disk == Disk(path)
      parsing == [run EXCEPT !.phase = Phase("parsing config file", path)]
      config == [parsed |-> TRUE, keys |-> disk.keys, runnerId |-> disk.runnerId,
                 functions |-> disk.functions, postprocess |-> disk.postprocess]
      parsed == [parsing EXCEPT !.config = config]
      funcRead == [parsed EXCEPT !.io = @ \cup {<<"read", FuncFile(path)>>}]
      loading == [funcRead EXCEPT !.phase = Phase("loading data", DataFile(path)),
                                  !.io = @ \cup {<<"loadModel", DataFile(path)>>}]
  IN IF ~disk.exists THEN Fail(run, Error(<<"Config file not found.">>))
     ELSE IF disk.yaml = "invalid" THEN Fail(parsing, Error(<<"YAMLSyntaxError">>))
     ELSE IF disk.yaml = "empty"
       THEN Fail(parsing, Error(<<"Cannot read property 'decomposition' of null">>))
     ELSE IF "decomposition" \notin config.keys THEN Fail(parsed, NotSetError("decomposition"))
     ELSE IF "functions" \notin config.keys THEN Fail(parsed, NotSetError("functions"))
     ELSE IF "data" \notin config.keys THEN Fail(funcRead, NotSetError("data"))
     ELSE IF "output" \notin config.keys THEN Fail(funcRead, NotSetError("output"))
     ELSE IF ~disk.dataLoads THEN Fail(loading, Error(<<"model load error">>))
     ELSE [loading EXCEPT !.phase = PhaseString("loading decomposition file"),
                          !.io = @ \cup {<<"read", DecompFile(path)>>},
                          !.pc = "readDecomp"]

\* const decompSource = await decompFile.read(true); ... up to the await of funcFile.getRealPath
DecompReadDone(run) ==
  LET path == run.configFilePath
      creating == [run EXCEPT
                     !.phase = Phase("creating decomposition function runner", path),
                     !.RunnerClass = SelectRunnerClass(run.config)]
  IN IF ~Disk(path).decompExists THEN Fail(run, Error(<<"Decomposition file not found.">>))
     ELSE IF creating.RunnerClass = Undefined
       THEN Fail(creating, RunnerNotFoundError(run.config))
     ELSE [creating EXCEPT
             !.phase = Phase("parsing Fudomo decomposition functions", FuncFile(path)),
             !.io = @ \cup {<<"getRealPath", FuncFile(path)>>},
             !.pc = "funcRealPath"]

\* config.functions = await funcFile.getRealPath(); ... up to the await of decompFile.getRealPath
FuncRealPathDone(run) ==
  LET path == run.configFilePath
      disk == Disk(path)
      absolute == [run EXCEPT !.config.functions = <<"/">> \o @]
  IN IF ~disk.funcRealPath THEN Fail(run, Error(<<"ENOENT">>))
     ELSE IF ~disk.runnerConstructs THEN Fail(absolute, Error(<<"runner constructor error">>))
     ELSE [absolute EXCEPT !.functionRunner = run.RunnerClass,
                           !.io = @ \cup {<<"getRealPath", DecompFile(path)>>},
                           !.pc = "decompRealPath"]

\* The continuation that runs the transformation whatever the parse result says.
DecompRealPathDone_HasErrorIgnored(run) ==
  LET path == run.configFilePath
      disk == Disk(path)
  IN IF ~disk.decompRealPath THEN Fail(run, Error(<<"ENOENT">>))
     ELSE IF disk.parse = "throws" THEN Fail(run, Error(<<"parser error">>))
     ELSE [run EXCEPT !.phase = Phase("running Fudomo transformation", DecompFile(path)),
                      !.io = @ \cup {<<"transform", DecompFile(path)>>},
                      !.pc = "transform", !.resolved = TRUE]

\* const absDecompPath = await decompFile.getRealPath(); ... up to transform(...).then
DecompRealPathDone(run) ==
  LET path == run.configFilePath
      disk == Disk(path)
  IN IF ~disk.decompRealPath THEN Fail(run, Error(<<"ENOENT">>))
     ELSE IF disk.parse = "throws" THEN Fail(run, Error(<<"parser error">>))
     ELSE IF disk.parse = "hasError"
       THEN [run EXCEPT !.notes = Append(@, definitionErrorNotification(path)), !.pc = "done", !.resolved = TRUE]
     ELSE [run EXCEPT !.phase = Phase("running Fudomo transformation", DecompFile(path)),
                      !.io = @ \cup {<<"transform", DecompFile(path)>>},
                      !.pc = "transform", !.resolved = TRUE]

\* transform(transformationContext).then(async result => { ... await outputFile.write(result)
\* and .catch(error => { this.handleTransformError(error, phase, projectPath); })
TransformSettled(run) ==
  LET path == run.configFilePath
      disk == Disk(path)
  IN IF disk.transform = "computeException"
       THEN Fail(run, FudomoComputeException(<<"compute exception">>, "TypeError"))
     ELSE IF disk.transform = "unsupportedPython"
       THEN Fail(run, FudomoComputeException(<<"compute exception">>,
                                             "UnsupportedPythonVersionError"))
     ELSE IF disk.transform = "error" THEN Fail(run, Error(<<"transform error">>))
     ELSE [run EXCEPT
             !.phase = PhaseString("writing Fudomo transformation result to destination file"),
             !.io = @ \cup {<<"write", OutputFile(path)>>},
             !.pc = "write"]

\* ------------------------------------------------- post-process registry
\* `path` in runTransformationConfigFile is the imported node module `path`
\* (the parameter is configFilePath): as a property key it is String(path).
PathModuleKey == <<"[object Object]">>

RegistryKey(configFilePath) == PathModuleKey

EmptyObject == [k \in {} |-> 0]

\* Nothing written yet: output maps an output file to the invocation whose
\* transformation result it holds, config maps an edited config file to the
\* content the user saved.
NoFiles == [output |-> EmptyObject, config |-> EmptyObject]

\* obj[key] = value
Put(obj, key, value) ==
  [k \in DOMAIN obj \cup {key} |-> IF k = key THEN value ELSE obj[k]]

\* A delete that removes nothing.
Delete_Nothing(obj, key) == obj

\* delete obj[key]
Delete(obj, key) == [k \in DOMAIN obj \ {key} |-> obj[k]]

Live(run) == run.child.state = "running"

\* A kill that also ends every run that is still loading, transforming or writing.
treeKill_AbortsRuns(allRuns, pid) ==
  [q \in DOMAIN allRuns |->
     IF Live(allRuns[q]) /\ allRuns[q].child.pid = pid
     THEN [allRuns[q] EXCEPT !.child.killIssued = TRUE]
     ELSE IF allRuns[q].pc \in {"readConfig", "readDecomp", "funcRealPath",
                                "decompRealPath", "transform"}
     THEN [allRuns[q] EXCEPT !.pc = "done"]
     ELSE allRuns[q]]

\* treeKill(pid, 'SIGKILL'): the signal goes to the process that has this pid.
treeKill(allRuns, pid) ==
  [q \in DOMAIN allRuns |->
     IF Live(allRuns[q]) /\ allRuns[q].child.pid = pid
     THEN [allRuns[q] EXCEPT !.child.killIssued = TRUE]
     ELSE allRuns[q]]

\* A launch that kills without recording the pid.
KilledByLaunch_NotRecorded(registry, killed, key) == killed

\* if (path in runningPostprocessors) { ...; killedPostprocessors[pid] = true; ... }
KilledByLaunch(registry, killed, key) ==
  IF key \in DOMAIN registry THEN killed \cup {registry[key]} ELSE killed

\* The pids the operating system can give a new process.
FreePids == Pids \ { runs[q].child.pid : q \in { i \in DOMAIN runs : Live(runs[i]) } }

\* The callback that reports every failure, killed or not.
ExecCallbackNotes_NoKillCheck(run, killed, error, stdout, stderr) ==
  IF ~error
  THEN IF run.notifyOnSuccess
       THEN <<showSuccess(<<"successfully written and post-processed">>, Null)>>
       ELSE <<>>
  ELSE <<showError(<<"Error post-processing result of Fudomo transformation">>,
                   IF stderr # <<>> THEN stderr ELSE stdout,
                   DataFile(run.configFilePath))>>

\* An exit callback that notifies success whoever asked for the run.
ExecCallbackNotes_AlwaysNotify(run, killed, error, stdout, stderr) ==
  IF ~error
  THEN <<showSuccess(<<"successfully written and post-processed">>, Null)>>
  ELSE IF run.child.pid \in killed
       THEN <<>>
       ELSE <<showError(<<"Error post-processing result of Fudomo transformation">>,
                        IF stderr # <<>> THEN stderr ELSE stdout,
                        DataFile(run.configFilePath))>>

\* The exec callback's notification, if any.
ExecCallbackNotes(run, killed, error, stdout, stderr) ==
  IF ~error
  THEN IF run.notifyOnSuccess
       THEN <<showSuccess(<<"successfully written and post-processed">>, Null)>>
       ELSE <<>>
  ELSE IF run.child.pid \in killed
       THEN <<>>
       ELSE <<showError(<<"Error post-processing result of Fudomo transformation">>,
                        IF stderr # <<>> THEN stderr ELSE stdout,
                        DataFile(run.configFilePath))>>

\* if (child.pid in killedPostprocessors) delete killedPostprocessors[child.pid]
KilledAfterExit(killed, pid, error) ==
  IF error /\ pid \in killed THEN killed \ {pid} ELSE killed

\* What a post-process command can have printed when it ends.
ChildOutputs ==
  { [stdout |-> <<"out">>, stderr |-> <<"err">>],
    [stdout |-> <<"out">>, stderr |-> <<>>] }

\* ----------------------------------------------------------------- actions
\* Lines 441-446 and 450-473 run without an await between them: nothing else
\* runs while a run stands between the two.
NoExecPending == \A q \in DOMAIN runs : runs[q].pc # "exec"

\* The continuation of run r that waits at pc runs and leaves the run as `next`.
Continue(r, pc, next) ==
  /\ NoExecPending
  /\ runs[r].pc = pc
  /\ runs' = [runs EXCEPT ![r] = next]
  /\ UNCHANGED <<watcherVars, project, generatorVars, linterVars, files, triggers, runningPostprocessors, killedPostprocessors>>

\* runTransformationConfigFile(configFilePath, notifyOnSuccess), up to its first await
StartRun(configFilePath, notifyOnSuccess) ==
  /\ NoExecPending
  /\ triggers > 0
  /\ triggers' = triggers - 1
  /\ runs' = Append(runs, NewRun(configFilePath, notifyOnSuccess))
  /\ UNCHANGED <<watcherVars, project, generatorVars, linterVars, files, runningPostprocessors, killedPostprocessors>>

\* The selections of at most n config files in the tree view.
RECURSIVE Selections(_)
Selections(n) ==
  IF n = 0 THEN {{}}
  ELSE LET smaller == Selections(n - 1)
       IN smaller \cup { S \cup {p} : S \in smaller, p \in project }

\* The selection that keeps only its first path.
SelectedPaths_FirstOnly(selection) ==
  IF selection = {} THEN <<>>
  ELSE <<CHOOSE p \in selection : \A q \in selection : p[2] <= q[2]>>

\* const CONFIG_FILE_EXTENSION = 'config'
CONFIG_FILE_EXTENSION == "config"

\* path.endsWith('.' + ext): a path is the pair of its extension and its stem.
hasExtension(path, ext) == path[1] = ext

\* The files that the tree view shows and the user can select: the config
\* files of the project and a data file.
TreeViewPaths == project \cup { DataFile(ConfigPath(1)) }

\* getSelectedFilesWithExtension: the selected config files in tree order.
RECURSIVE SelectedPaths(_)
SelectedPaths(selection) ==
  LET candidatePaths == { p \in selection : hasExtension(p, CONFIG_FILE_EXTENSION) }
  IN IF candidatePaths = {} THEN <<>>
     ELSE LET first == CHOOSE p \in candidatePaths :
                         \A q \in candidatePaths : p[2] <= q[2]
          IN <<first>> \o SelectedPaths(candidatePaths \ {first})

\* runTransformation: paths.map(...) calls runTransformationConfigFile(path, true)
\* for every selected path, each up to its first await, before anything else runs.
RunTransformation(selection) ==
  LET paths == SelectedPaths(selection)
  IN
  /\ NoExecPending
  /\ paths # <<>>
  /\ Cardinality(selection) <= triggers
  /\ triggers' = triggers - Cardinality(selection)
  /\ runs' = runs \o [i \in 1..Len(paths) |-> NewRun(paths[i], TRUE)]
  /\ UNCHANGED <<watcherVars, project, generatorVars, linterVars, files, runningPostprocessors, killedPostprocessors>>

ConfigRead(r) == Continue(r, "readConfig", ConfigReadDone(runs[r]))
DecompRead(r) == Continue(r, "readDecomp", DecompReadDone(runs[r]))
FuncRealPath(r) == Continue(r, "funcRealPath", FuncRealPathDone(runs[r]))
DecompRealPath(r) == Continue(r, "decompRealPath", DecompRealPathDone(runs[r]))
Transform(r) == Continue(r, "transform", TransformSettled(runs[r]))

\* await outputFile.write(result) is over: report, or kill the registered
\* post-processor (lines 437-446 and 475-482).
OutputWritten(r) ==
  LET run == runs[r]
      key == RegistryKey(run.configFilePath)
  IN
  /\ NoExecPending
  /\ run.pc = "write"
  /\ UNCHANGED <<watcherVars, project, generatorVars, linterVars, triggers, runningPostprocessors>>
  /\ files' = IF Disk(run.configFilePath).writable
              THEN [files EXCEPT !.output = Put(@, OutputFile(run.configFilePath), r)]
              ELSE files
  /\ IF ~Disk(run.configFilePath).writable
     THEN /\ runs' = [runs EXCEPT ![r] = Fail(run, Error(<<"EACCES">>))]
          /\ UNCHANGED killedPostprocessors
     ELSE IF run.config.postprocess = Undefined
     THEN /\ runs' = [runs EXCEPT ![r] =
                 [run EXCEPT !.pc = "done",
                             !.notes = IF run.notifyOnSuccess
                                       THEN Append(@, showSuccess(<<"successfully written">>,
                                                        OutputFile(run.configFilePath)))
                                       ELSE @]]
          /\ UNCHANGED killedPostprocessors
     ELSE /\ killedPostprocessors' =
                 KilledByLaunch(runningPostprocessors, killedPostprocessors, key)
          /\ runs' = [ (IF key \in DOMAIN runningPostprocessors
                        THEN treeKill(runs, runningPostprocessors[key])
                        ELSE runs) EXCEPT ![r].pc = "exec" ]

\* reportBusy, child_process.exec and runningPostprocessors[path] = child.pid
PostprocessExec(r) ==
  LET run == runs[r]
      busy == [run EXCEPT !.busyMessage = "shown"]
  IN
  /\ run.pc = "exec"
  /\ IF Disk(run.configFilePath).exec = "throws"
     THEN /\ runs' = [runs EXCEPT ![r] = Fail(busy, Error(<<"spawn E2BIG">>))]
          /\ UNCHANGED runningPostprocessors
     ELSE \E pid \in FreePids :
            /\ runs' = [runs EXCEPT ![r] =
                  [busy EXCEPT !.pc = "child",
                               !.child = [pid |-> pid, state |-> "running",
                                          killIssued |-> FALSE, error |-> FALSE,
                                          cwd |-> BaseDir(run.configFilePath)]]]
            /\ runningPostprocessors' =
                  Put(runningPostprocessors, RegistryKey(run.configFilePath), pid)
  /\ UNCHANGED <<watcherVars, project, generatorVars, linterVars, files, triggers, killedPostprocessors>>

\* The child has ended: the callback given to child_process.exec runs.
ExecCallback(r) ==
  LET run == runs[r]
  IN
  /\ NoExecPending
  /\ run.pc = "child"
  /\ \E error \in BOOLEAN, out \in ChildOutputs :
       /\ runs' = [runs EXCEPT ![r] =
             [run EXCEPT !.pc = "done",
                         !.busyMessage = "disposed",
                         !.child.state = "exited",
                         !.child.error = error,
                         !.notes = @ \o ExecCallbackNotes(run, killedPostprocessors, error,
                                                          out.stdout, out.stderr)]]
       /\ killedPostprocessors' = KilledAfterExit(killedPostprocessors, run.child.pid, error)
  /\ runningPostprocessors' = Delete(runningPostprocessors, RegistryKey(run.configFilePath))
  /\ UNCHANGED <<watcherVars, project, generatorVars, linterVars, files, triggers>>

\* ---------------------------------------------------- auto-transform watcher
EventActions == {"created", "modified", "renamed", "deleted"}

\* The paths a change event can carry: the data path of a registered
\* configuration as the configuration spells it, the file it resolves to, or
\* another file.
EventPaths ==
  { DataFile(autoTransformPaths[i]) : i \in DOMAIN autoTransformPaths }
    \cup { RealPath(DataFile(autoTransformPaths[i])) : i \in DOMAIN autoTransformPaths }
    \cup { <<"other">> }

Events == [action : EventActions, path : EventPaths]

EventBatches == UNION { [1..n -> Events] : n \in 1..MaxEvents }

\* A handler that goes over every config file of the project, registered or not.
NewWatcher_AllConfigs(events, paths) ==
  [events |-> events,
   autoTransformPaths |-> SelectedPaths(project),
   i |-> 1,
   pc |-> "read",
   dataFileAbsPaths |-> EmptyObject,
   io |-> {<<"read", SelectedPaths(project)[1]>>},
   notes |-> <<>>,
   calls |-> <<>>]

\* The locals of one invocation of the onDidChangeFiles handler, the files it
\* touched (io), what it told the user (notes) and the runs it asked for (calls).
NewWatcher(events, paths) ==
  [events |-> events,
   autoTransformPaths |-> paths,
   i |-> 1,
   pc |-> "read",
   dataFileAbsPaths |-> EmptyObject,
   io |-> {<<"read", paths[1]>>},
   notes |-> <<>>,
   calls |-> <<>>]

\* action == 'created' || action == 'modified' || action == 'renamed'
Triggering(action) == action \in {"created", "modified", "renamed"}

\* for (const event of events) { ... thiz.runTransformationConfigFile(configPath, false) }:
\* the config files it is called with, in call order.
RECURSIVE RunCalls(_, _)
RunCalls(events, dataFileAbsPaths) ==
  IF events = <<>> THEN <<>>
  ELSE LET event == Head(events)
           configPaths == IF Triggering(event.action) /\ event.path \in DOMAIN dataFileAbsPaths
                          THEN dataFileAbsPaths[event.path]
                          ELSE <<>>
       IN configPaths \o RunCalls(Tail(events), dataFileAbsPaths)

\* The end of one iteration of the first loop: the read of the next registered
\* configuration, or the second loop.
NextConfig(watcher) ==
  IF watcher.i < Len(watcher.autoTransformPaths)
  THEN [watcher EXCEPT !.i = @ + 1,
                       !.pc = "read",
                       !.io = @ \cup {<<"read", watcher.autoTransformPaths[watcher.i + 1]>>}]
  ELSE [watcher EXCEPT !.pc = "done",
                       !.calls = RunCalls(watcher.events, watcher.dataFileAbsPaths)]

\* catch (error) { showError('Error running Auto Transform', error.message); }
WatcherCatch(watcher, error) ==
  NextConfig([watcher EXCEPT
                !.notes = Append(@, showError(<<"Error running Auto Transform">>,
                                              error.message, Null))])

\* const configText = await new File(configPath).read(true); ... up to the
\* await of dataFile.getRealPath
WatcherConfigReadDone(watcher) ==
  LET configPath == watcher.autoTransformPaths[watcher.i]
      disk == Disk(configPath)
  IN IF ~disk.exists THEN NextConfig(watcher)
     ELSE IF disk.yaml = "invalid" THEN WatcherCatch(watcher, Error(<<"YAMLSyntaxError">>))
     ELSE IF disk.yaml = "empty"
       THEN WatcherCatch(watcher, Error(<<"Cannot read property 'data' of null">>))
     ELSE IF "data" \notin disk.keys
       THEN WatcherCatch(watcher, Error(<<"Path must be a string">>))
     ELSE [watcher EXCEPT !.pc = "realPath",
                          !.io = @ \cup {<<"getRealPath", DataFile(configPath)>>}]

\* new Set() ... configPaths.add(configPath): a Set keeps insertion order.
SetAdd(set, value) ==
  IF \E i \in DOMAIN set : set[i] = value THEN set ELSE Append(set, value)

\* const resolvedDataFilePath = await dataFile.getRealPath(); ... to the end of
\* the iteration
WatcherRealPathDone(watcher) ==
  LET configPath == watcher.autoTransformPaths[watcher.i]
      resolvedDataFilePath == RealPath(DataFile(configPath))
      configPaths == IF resolvedDataFilePath \in DOMAIN watcher.dataFileAbsPaths
                     THEN watcher.dataFileAbsPaths[resolvedDataFilePath]
                     ELSE <<>>
  IN IF Disk(configPath).dataRealPath = "missing" THEN WatcherCatch(watcher, Error(<<"ENOENT">>))
     ELSE NextConfig([watcher EXCEPT
                        !.dataFileAbsPaths = Put(@, resolvedDataFilePath,
                                                 SetAdd(configPaths, configPath))])

\* autoTransformPaths[path] = true for every path, in order
RECURSIVE AddKeys(_, _)
AddKeys(obj, paths) ==
  IF paths = <<>> THEN obj ELSE AddKeys(SetAdd(obj, Head(paths)), Tail(paths))

\* delete obj[path]: the other keys keep their order
RECURSIVE DeleteKey(_, _)
DeleteKey(obj, path) ==
  IF obj = <<>> THEN <<>>
  ELSE (IF Head(obj) = path THEN <<>> ELSE <<Head(obj)>>) \o DeleteKey(Tail(obj), path)

\* A disable that clears the registry as soon as a config file is selected.
RemoveKeys_Clear(obj, paths) == IF paths = <<>> THEN obj ELSE <<>>

\* delete autoTransformPaths[path] for every path, in order
RECURSIVE RemoveKeys(_, _)
RemoveKeys(obj, paths) ==
  IF paths = <<>> THEN obj ELSE RemoveKeys(DeleteKey(obj, Head(paths)), Tail(paths))

\* path in autoTransformPaths
HasKey(obj, path) == \E i \in DOMAIN obj : obj[i] = path

\* allowEnableAutoTransform: some selected config file is not registered
allowEnableAutoTransform(selection) ==
  LET paths == SelectedPaths(selection)
  IN \E i \in DOMAIN paths : ~HasKey(autoTransformPaths, paths[i])

\* allowDisableAutoTransform: some selected config file is registered
allowDisableAutoTransform(selection) ==
  LET paths == SelectedPaths(selection)
  IN \E i \in DOMAIN paths : HasKey(autoTransformPaths, paths[i])

\* A batch that also drops the registered configurations that do not parse.
ChangeFiles_PrunesInvalid(events) ==
  /\ NoExecPending
  /\ batches > 0
  /\ batches' = batches - 1
  /\ watchers' = IF autoTransformPaths = <<>>
                 THEN watchers
                 ELSE Append(watchers, NewWatcher(events, autoTransformPaths))
  /\ autoTransformPaths' =
       RemoveKeys(autoTransformPaths,
                  SelectedPaths({ p \in project : Disk(p).yaml = "invalid" }))
  /\ UNCHANGED <<project, generatorVars, linterVars, files, triggers, runs,
                 runningPostprocessors, killedPostprocessors>>

\* atom.project.onDidChangeFiles(async events => { ... up to the first await
ChangeFiles(events) ==
  /\ NoExecPending
  /\ batches > 0
  /\ batches' = batches - 1
  /\ watchers' = IF autoTransformPaths = <<>>
                 THEN watchers
                 ELSE Append(watchers, NewWatcher(events, autoTransformPaths))
  /\ UNCHANGED <<autoTransformPaths, project, generatorVars, linterVars, files, triggers, runs,
                 runningPostprocessors, killedPostprocessors>>

\* The continuation of handler invocation w that waits at pc runs and leaves
\* the invocation as `next`; the runs it calls for start with it.
WatcherContinue(w, pc, next) ==
  /\ NoExecPending
  /\ watchers[w].pc = pc
  /\ watchers' = [watchers EXCEPT ![w] = next]
  /\ runs' = runs \o [i \in 1..Len(next.calls) |-> NewRun(next.calls[i], FALSE)]
  /\ UNCHANGED <<autoTransformPaths, batches, project, generatorVars, linterVars, files, triggers,
                 runningPostprocessors, killedPostprocessors>>

WatcherConfigRead(w) == WatcherContinue(w, "read", WatcherConfigReadDone(watchers[w]))
WatcherRealPath(w) == WatcherContinue(w, "realPath", WatcherRealPathDone(watchers[w]))

\* enableAutoTransform on the selected config files
EnableAutoTransform(selection) ==
  /\ NoExecPending
  /\ autoTransformPaths' = AddKeys(autoTransformPaths, SelectedPaths(selection))
  /\ UNCHANGED <<batches, watchers, project, generatorVars, linterVars, files, triggers, runs,
                 runningPostprocessors, killedPostprocessors>>

\* disableAutoTransform on the selected config files
DisableAutoTransform(selection) ==
  /\ NoExecPending
  /\ autoTransformPaths' = RemoveKeys(autoTransformPaths, SelectedPaths(selection))
  /\ UNCHANGED <<batches, watchers, project, generatorVars, linterVars, files, triggers, runs,
                 runningPostprocessors, killedPostprocessors>>

\* ------------------------------------------------------------ validateData
\* The markers (and the errors of a DataValidator) that can be reported.
Markers ==
  { [location |-> l, message |-> <<"m", l>>, context |-> <<"c", l>>] : l \in 1..2 }

MarkerLists == UNION { [1..n -> Markers] : n \in 0..MaxMarkers }

\* What loadModel does: it returns a model, or throws an error that carries
\* markers, or throws an error without (undefined or null markers).
LoadOutcomes ==
  { [kind |-> "model", markers |-> <<>>] }
    \cup { [kind |-> "markers", markers |-> m] : m \in MarkerLists }
    \cup { [kind |-> "error", markers |-> <<>>] }

\* validator.errors of a DataValidator
ValidatorErrors ==
  { <<>>, <<[location |-> 3, message |-> <<"v">>, context |-> <<"metamodel">>]>> }

\* config.metamodel: not set, or the name of a file that holds a metamodel,
\* that is empty (YAML.parse gives null) or that cannot be read
Metamodels == {"unset", "readable", "empty", "unreadable"}

\* The config files the user can select for validation: one that names its
\* data, one that does not and one that does not exist.
ValidateProject ==
  { ConfigPath(1),
    ConfigWith([Healthy EXCEPT !.keys = Required \ {"data"}]),
    ConfigWith([Postprocessed EXCEPT !.exists = FALSE]) }

\* Linter messages that leave out the first error.
LinterMessages_FirstDropped(errors, file) ==
  [i \in 1..(Len(errors) - 1) |->
     [severity |-> "error",
      location |-> [file |-> file, position |-> errors[i + 1].location],
      excerpt |-> errors[i + 1].message,
      description |-> errors[i + 1].context]]

\* for (const error of errors) messages.push({ ... })
LinterMessages(errors, file) ==
  [i \in 1..Len(errors) |->
     [severity |-> "error",
      location |-> [file |-> file, position |-> errors[i].location],
      excerpt |-> errors[i].message,
      description |-> errors[i].context]]

\* The locals of one invocation of validateData, what it told the user
\* (notes) and, for every config file it is through with, what happened (log).
NewValidation(paths) ==
  [paths |-> paths,
   i |-> 1,
   pc |-> IF paths = <<>> THEN "done" ELSE "readConfig",
   metamodel |-> "unset",
   notes |-> <<>>,
   log |-> <<>>]

\* for (const configPath of paths): on to the next config file
NextPath(validation, entry) ==
  [validation EXCEPT !.i = @ + 1,
                     !.pc = IF validation.i < Len(validation.paths) THEN "readConfig" ELSE "done",
                     !.metamodel = "unset",
                     !.log = Append(@, entry)]

\* catch (error) { showError('Error validating data file', ...) }
ValidateCatch(validation, error) ==
  NextPath([validation EXCEPT !.notes =
              Append(@, showError(<<"Error validating data file">>, error.message, Null))],
           [path |-> validation.paths[validation.i], error |-> error.message,
            markers |-> <<>>, validated |-> FALSE, set |-> FALSE, messages |-> <<>>])

\* From `if (config.data == null)` to setMessages: the data file is loaded,
\* validated against the metamodel if both exist, and the errors are handed
\* to the linter.
ValidateLoaded(validation, load, validatorErrors) ==
  LET path == validation.paths[validation.i]
      model == load.kind = "model"
      validated == model /\ validation.metamodel = "readable"
      errors == load.markers \o (IF validated THEN validatorErrors ELSE <<>>)
  IN IF "data" \notin Disk(path).keys
       THEN ValidateCatch(validation, Error(<<"Configuration file does not specify data.">>))
     ELSE IF load.kind = "error"
       THEN ValidateCatch(validation, Error(<<"model load error">>))
     ELSE NextPath(validation,
                   [path |-> path, error |-> Null,
                    markers |-> load.markers, validated |-> validated, set |-> TRUE,
                    messages |-> LinterMessages(errors, DataFile(path))])

\* The entry the step has added to the log, if any.
Logged(validation, next) ==
  IF Len(next.log) > Len(validation.log) THEN {next.log[Len(next.log)]} ELSE {}

\* The continuation of invocation v that waits at pc runs and leaves the
\* invocation as `next`; a setMessages it has made reaches the linter.
ValidateContinue(v, pc, next) ==
  /\ NoExecPending
  /\ validations[v].pc = pc
  /\ validations' = [validations EXCEPT ![v] = next]
  /\ linterMessages' =
       IF \E entry \in Logged(validations[v], next) : entry.set
       THEN LET entry == next.log[Len(next.log)]
            IN Put(linterMessages, DataFile(entry.path), entry.messages)
       ELSE linterMessages
  /\ UNCHANGED <<watcherVars, project, generatorVars, files, triggers, runs,
                 runningPostprocessors, killedPostprocessors>>

\* validateData up to its first await
ValidateData(selection) ==
  /\ NoExecPending
  /\ Len(validations) < ValidateRuns
  /\ validations' = Append(validations, NewValidation(SelectedPaths(selection)))
  /\ UNCHANGED <<watcherVars, project, generatorVars, files, linterMessages, triggers, runs,
                 runningPostprocessors, killedPostprocessors>>

\* After `await configFile.read(true)`: the config is parsed; with a metamodel
\* the metamodel file is read, without one the data file is loaded.
ValidateConfigRead(v, metamodel, load, validatorErrors) ==
  LET validation == validations[v]
      disk == Disk(validation.paths[validation.i])
  IN ValidateContinue(v, "readConfig",
       IF ~disk.exists THEN ValidateCatch(validation, Error(<<"Config file not found.">>))
       ELSE IF disk.yaml = "invalid" THEN ValidateCatch(validation, Error(<<"YAMLSyntaxError">>))
       ELSE IF disk.yaml = "empty"
         THEN ValidateCatch(validation, Error(<<"Cannot read property 'metamodel' of null">>))
       ELSE IF metamodel # "unset"
         THEN [validation EXCEPT !.pc = "readMetamodel", !.metamodel = metamodel]
       ELSE ValidateLoaded(validation, load, validatorErrors))

\* After `await metamodelFile.read(true)`
ValidateMetamodelRead(v, load, validatorErrors) ==
  LET validation == validations[v]
  IN ValidateContinue(v, "readMetamodel",
       IF validation.metamodel = "unreadable"
       THEN ValidateCatch(validation, Error(<<"Metamodel file could not be read.">>))
       ELSE ValidateLoaded(validation, load, validatorErrors))

Init ==
  /\ autoTransformPaths = <<>>
  /\ batches = 0
  /\ watchers = <<>>
  /\ project = PipelineProject
  /\ files = NoFiles
  /\ validations = <<>>
  /\ linterMessages = EmptyObject
  /\ generations = <<>>
  /\ skeletons = EmptyObject
  /\ triggers = PipelineRuns
  /\ runs = <<>>
  /\ runningPostprocessors = EmptyObject
  /\ killedPostprocessors = {}

InitRelaunch ==
  /\ autoTransformPaths = <<>>
  /\ batches = 0
  /\ watchers = <<>>
  /\ project = PostprocessProject
  /\ files = NoFiles
  /\ validations = <<>>
  /\ linterMessages = EmptyObject
  /\ generations = <<>>
  /\ skeletons = EmptyObject
  /\ triggers = RelaunchRuns
  /\ runs = <<>>
  /\ runningPostprocessors = EmptyObject
  /\ killedPostprocessors = {}

InitPostprocess ==
  /\ autoTransformPaths = <<>>
  /\ batches = 0
  /\ watchers = <<>>
  /\ project = PostprocessProject
  /\ files = NoFiles
  /\ validations = <<>>
  /\ linterMessages = EmptyObject
  /\ generations = <<>>
  /\ skeletons = EmptyObject
  /\ triggers = PostprocessRuns
  /\ runs = <<>>
  /\ runningPostprocessors = EmptyObject
  /\ killedPostprocessors = {}

InitBatch ==
  /\ autoTransformPaths = <<>>
  /\ batches = 0
  /\ watchers = <<>>
  /\ project = BatchProject
  /\ files = NoFiles
  /\ validations = <<>>
  /\ linterMessages = EmptyObject
  /\ generations = <<>>
  /\ skeletons = EmptyObject
  /\ triggers = BatchRuns
  /\ runs = <<>>
  /\ runningPostprocessors = EmptyObject
  /\ killedPostprocessors = {}

InitSelection ==
  /\ autoTransformPaths = <<>>
  /\ batches = 0
  /\ watchers = <<>>
  /\ project = SelectionProject
  /\ files = NoFiles
  /\ validations = <<>>
  /\ linterMessages = EmptyObject
  /\ generations = <<>>
  /\ skeletons = EmptyObject
  /\ triggers = SelectionRuns
  /\ runs = <<>>
  /\ runningPostprocessors = EmptyObject
  /\ killedPostprocessors = {}

RECURSIVE Range(_)
Range(seq) == IF seq = <<>> THEN {} ELSE {Head(seq)} \cup Range(Tail(seq))

InitLaunch ==
  /\ autoTransformPaths = <<>>
  /\ batches = 0
  /\ watchers = <<>>
  /\ project = LaunchProject
  /\ files = NoFiles
  /\ validations = <<>>
  /\ linterMessages = EmptyObject
  /\ generations = <<>>
  /\ skeletons = EmptyObject
  /\ triggers = LaunchRuns
  /\ runs = <<>>
  /\ runningPostprocessors = EmptyObject
  /\ killedPostprocessors = {}

InitExit ==
  /\ autoTransformPaths = <<>>
  /\ batches = 0
  /\ watchers = <<>>
  /\ project = { ConfigPath(1) }
  /\ files = NoFiles
  /\ validations = <<>>
  /\ linterMessages = EmptyObject
  /\ generations = <<>>
  /\ skeletons = EmptyObject
  /\ triggers = ExitRuns
  /\ runs = <<>>
  /\ runningPostprocessors = EmptyObject
  /\ killedPostprocessors = {}

InitAuto ==
  /\ autoTransformPaths = <<>>
  /\ batches = AutoBatches
  /\ watchers = <<>>
  /\ project = AutoProject
  /\ files = NoFiles
  /\ validations = <<>>
  /\ linterMessages = EmptyObject
  /\ generations = <<>>
  /\ skeletons = EmptyObject
  /\ triggers = 0
  /\ runs = <<>>
  /\ runningPostprocessors = EmptyObject
  /\ killedPostprocessors = {}

\* One post-processed configuration is registered for auto-transform; the
\* user can also run it, or one without post-processing, by hand.
InitNotify ==
  /\ autoTransformPaths = <<ConfigPath(1)>>
  /\ batches = NotifyRuns
  /\ watchers = <<>>
  /\ project = { ConfigPath(1), ConfigWith([Healthy EXCEPT !.dataRealPath = "link"]) }
  /\ files = NoFiles
  /\ validations = <<>>
  /\ linterMessages = EmptyObject
  /\ generations = <<>>
  /\ skeletons = EmptyObject
  /\ triggers = NotifyRuns
  /\ runs = <<>>
  /\ runningPostprocessors = EmptyObject
  /\ killedPostprocessors = {}

\* The contents the user saves into the config file: with post-processing and
\* JavaScript functions, or without and with Python functions.
EditContents == { Postprocessed, [Healthy EXCEPT !.functions = F_py] }

\* The user saves the config file with another content.
EditConfig(configFilePath, content) ==
  /\ Disk(configFilePath) # content
  /\ files' = [files EXCEPT !.config =
                 Put(@, configFilePath,
                     CHOOSE k \in DOMAIN ContentTable : ContentTable[k] = content)]
  /\ UNCHANGED <<watcherVars, project, generatorVars, linterVars, triggers, runs,
                 runningPostprocessors, killedPostprocessors>>

InitEdit ==
  /\ autoTransformPaths = <<>>
  /\ batches = 0
  /\ watchers = <<>>
  /\ project = { ConfigPath(1) }
  /\ files = NoFiles
  /\ validations = <<>>
  /\ linterMessages = EmptyObject
  /\ generations = <<>>
  /\ skeletons = EmptyObject
  /\ triggers = EditRuns
  /\ runs = <<>>
  /\ runningPostprocessors = EmptyObject
  /\ killedPostprocessors = {}

InitValidate ==
  /\ autoTransformPaths = <<>>
  /\ batches = 0
  /\ watchers = <<>>
  /\ project = ValidateProject
  /\ files = NoFiles
  /\ validations = <<>>
  /\ linterMessages = EmptyObject
  /\ generations = <<>>
  /\ skeletons = EmptyObject
  /\ triggers = 0
  /\ runs = <<>>
  /\ runningPostprocessors = EmptyObject
  /\ killedPostprocessors = {}

InitWatcher ==
  /\ autoTransformPaths = WatcherProject
  /\ batches = WatcherBatches
  /\ watchers = <<>>
  /\ project = Range(WatcherProject)
  /\ files = NoFiles
  /\ validations = <<>>
  /\ linterMessages = EmptyObject
  /\ generations = <<>>
  /\ skeletons = EmptyObject
  /\ triggers = 0
  /\ runs = <<>>
  /\ runningPostprocessors = EmptyObject
  /\ killedPostprocessors = {}

\* ------------------------------------------- generateFunctionsForDecompositionFile
\* SKELETON_GENERATORS: the languages, each with its id and file extension.
SKELETON_GENERATORS ==
  { [id |-> "js", extension |-> "js"], [id |-> "python", extension |-> "py"] }

\* The decomposition file 'abc.fudomo' that the user generates functions for.
DecompositionPath == <<"fudomo", "abc">>

\* What file.read(true) and parseFudomo make of the decomposition file.
DecompSources == {"null", "hasError", "ok"}

\* filenameNoExt + '_functions' + String(dedupSuffix) + '.' + language.extension;
\* the dedupSuffix 0 stands for '' (the two are == in the code's test).
DestFileName(path, dedupSuffix, extension) ==
  <<path[2], "_functions", dedupSuffix, extension>>

\* while (destFile.existsSync()) { ... }: the destination after the loop.
RECURSIVE destFileSearch(_, _, _, _, _)
destFileSearch(existing, path, extension, dedupSuffix, destFile) ==
  IF destFile \in existing
  THEN LET suffix == IF dedupSuffix = 0 THEN 2 ELSE dedupSuffix
       IN destFileSearch(existing, path, extension, suffix + 1,
                         DestFileName(path, suffix, extension))
  ELSE destFile

\* The invocation record after the synchronous part (lines 549-564).
NewGeneration(path, language) ==
  [path |-> path,
   language |-> language,
   destFile |-> destFileSearch(DOMAIN skeletons, path, language.extension, 0,
                               DestFileName(path, 0, language.extension)),
   pc |-> "read",
   notes |-> <<>>]

\* generateFunctions(languageId) for the selected decomposition file: the
\* invocation runs up to `await file.read(true)`.
GenerateFunctions(languageId) ==
  /\ NoExecPending
  /\ Len(generations) < GenerateRuns
  /\ \E language \in SKELETON_GENERATORS :
       /\ language.id = languageId
       /\ generations' = Append(generations, NewGeneration(DecompositionPath, language))
  /\ UNCHANGED <<watcherVars, project, linterVars, files, triggers, runs,
                 runningPostprocessors, killedPostprocessors, skeletons>>

\* The continuation after `await file.read(true)` (lines 567-583), up to
\* `await destFile.write(skeletonSource)` or to the end.
GenerateRead(g, decompSource) ==
  LET generation == generations[g]
      done == [generation EXCEPT !.pc = "done"]
  IN
  /\ NoExecPending
  /\ generation.pc = "read"
  /\ generations' =
       [generations EXCEPT ![g] =
          IF decompSource = "null"
          THEN [done EXCEPT !.notes =
                  <<showError(<<"Could not create skeleton functions for Fudomo transformation">>,
                              <<"Error: Decomposition file not found.">>, Null)>>]
          ELSE IF decompSource = "hasError"
          THEN [done EXCEPT !.notes =
                  <<[via |-> "addError",
                     message |-> <<"Could not parse Fudomo decomposition definition from">>,
                     detail |-> <<"errorsMd">>,
                     open |-> generation.path]>>]
          ELSE [generation EXCEPT !.pc = "write"]]
  /\ UNCHANGED <<watcherVars, project, linterVars, files, triggers, runs,
                 runningPostprocessors, killedPostprocessors, skeletons>>

\* `await destFile.write(skeletonSource)` and what follows it (lines 584-588):
\* the file holds the skeleton of invocation g, or the write failed.
GenerateWrite(g, written) ==
  LET generation == generations[g]
  IN
  /\ NoExecPending
  /\ generation.pc = "write"
  /\ skeletons' = IF written THEN Put(skeletons, generation.destFile, g) ELSE skeletons
  /\ generations' =
       [generations EXCEPT ![g] =
          [generation EXCEPT
             !.pc = "done",
             !.notes =
               IF written
               THEN <<showSuccess(<<"Fudomo function skeletons successfully written">>,
                                  generation.destFile)>>
               ELSE <<showError(<<"Could not write skeleton functions to destination file">>,
                                <<"Error: write failed">>, Null)>>]]
  /\ UNCHANGED <<watcherVars, project, linterVars, files, triggers, runs,
                 runningPostprocessors, killedPostprocessors>>

\* The functions files that can exist before the first generation; their
\* content (0) is not that of any invocation.
ExistingSkeletons ==
  { DestFileName(DecompositionPath, suffix, language.extension) :
      suffix \in {0} \cup 2..MaxSuffix, language \in SKELETON_GENERATORS }

InitGenerate ==
  /\ autoTransformPaths = <<>>
  /\ batches = 0
  /\ watchers = <<>>
  /\ project = {}
  /\ files = NoFiles
  /\ validations = <<>>
  /\ linterMessages = EmptyObject
  /\ generations = <<>>
  /\ \E existing \in SUBSET ExistingSkeletons : skeletons = [name \in existing |-> 0]
  /\ triggers = 0
  /\ runs = <<>>
  /\ runningPostprocessors = EmptyObject
  /\ killedPostprocessors = {}

NextGenerate ==
  \/ \E language \in SKELETON_GENERATORS : GenerateFunctions(language.id)
  \/ \E g \in DOMAIN generations : \E decompSource \in DecompSources :
       GenerateRead(g, decompSource)
  \/ \E g \in DOMAIN generations : \E written \in BOOLEAN : GenerateWrite(g, written)

SpecGenerate == InitGenerate /\ [][NextGenerate]_vars

\* The next continuation of run r.
RunStep(r) ==
  \/ ConfigRead(r)
  \/ DecompRead(r)
  \/ FuncRealPath(r)
  \/ DecompRealPath(r)
  \/ Transform(r)
  \/ OutputWritten(r)
  \/ PostprocessExec(r)
  \/ ExecCallback(r)

Next ==
  \/ \E configFilePath \in project, notifyOnSuccess \in BOOLEAN :
       StartRun(configFilePath, notifyOnSuccess)
  \/ \E selection \in Selections(triggers) : RunTransformation(selection)
  \/ \E r \in DOMAIN runs : ConfigRead(r)
  \/ \E r \in DOMAIN runs : DecompRead(r)
  \/ \E r \in DOMAIN runs : FuncRealPath(r)
  \/ \E r \in DOMAIN runs : DecompRealPath(r)
  \/ \E r \in DOMAIN runs : Transform(r)
  \/ \E r \in DOMAIN runs : OutputWritten(r)
  \/ \E r \in DOMAIN runs : PostprocessExec(r)
  \/ \E r \in DOMAIN runs : ExecCallback(r)

Spec == Init /\ [][Next]_vars

SpecRelaunch == InitRelaunch /\ [][Next]_vars

SpecPostprocess == InitPostprocess /\ [][Next]_vars

SpecBatch == InitBatch /\ [][Next]_vars

SpecSelection == InitSelection /\ [][Next]_vars

SpecLaunch == InitLaunch /\ [][Next]_vars

\* Every continuation that is ready runs in the end (the event loop serves
\* every settled promise and callback), and every launched child exits in the
\* end.
Fairness == WF_vars(\E r \in DOMAIN runs : RunStep(r))

SpecExit == InitExit /\ [][Next]_vars /\ Fairness

\* The package while the user edits the config file between and during runs.
NextEdit ==
  \/ \E configFilePath \in project, content \in EditContents :
       EditConfig(configFilePath, content)
  \/ Next

SpecEdit == InitEdit /\ [][NextEdit]_vars

\* The package while the user validates the data of selected config files.
NextValidate ==
  \/ \E selection \in SUBSET project : ValidateData(selection)
  \/ \E v \in DOMAIN validations, metamodel \in Metamodels,
        load \in LoadOutcomes, validatorErrors \in ValidatorErrors :
       ValidateConfigRead(v, metamodel, load, validatorErrors)
  \/ \E v \in DOMAIN validations, load \in LoadOutcomes,
        validatorErrors \in ValidatorErrors :
       ValidateMetamodelRead(v, load, validatorErrors)

SpecValidate == InitValidate /\ [][NextValidate]_vars

\* The package while files change and nobody triggers a run by hand.
NextWatcher ==
  \/ \E events \in EventBatches : ChangeFiles(events)
  \/ \E w \in DOMAIN watchers : WatcherConfigRead(w)
  \/ \E w \in DOMAIN watchers : WatcherRealPath(w)
  \/ \E r \in DOMAIN runs : ConfigRead(r)
  \/ \E r \in DOMAIN runs : DecompRead(r)
  \/ \E r \in DOMAIN runs : FuncRealPath(r)
  \/ \E r \in DOMAIN runs : DecompRealPath(r)
  \/ \E r \in DOMAIN runs : Transform(r)
  \/ \E r \in DOMAIN runs : OutputWritten(r)
  \/ \E r \in DOMAIN runs : PostprocessExec(r)
  \/ \E r \in DOMAIN runs : ExecCallback(r)

SpecWatcher == InitWatcher /\ [][NextWatcher]_vars

\* The package while the user switches auto-transform on and off and files
\* change one at a time.
NextAuto ==
  \/ \E selection \in SUBSET TreeViewPaths : EnableAutoTransform(selection)
  \/ \E selection \in SUBSET TreeViewPaths : DisableAutoTransform(selection)
  \/ \E event \in Events : ChangeFiles(<<event>>)
  \/ \E w \in DOMAIN watchers : WatcherConfigRead(w)
  \/ \E w \in DOMAIN watchers : WatcherRealPath(w)
  \/ \E r \in DOMAIN runs : ConfigRead(r)
  \/ \E r \in DOMAIN runs : DecompRead(r)
  \/ \E r \in DOMAIN runs : FuncRealPath(r)
  \/ \E r \in DOMAIN runs : DecompRealPath(r)
  \/ \E r \in DOMAIN runs : Transform(r)
  \/ \E r \in DOMAIN runs : OutputWritten(r)
  \/ \E r \in DOMAIN runs : PostprocessExec(r)
  \/ \E r \in DOMAIN runs : ExecCallback(r)

SpecAuto == InitAuto /\ [][NextAuto]_vars

\* The package while files change one at a time and runs are triggered by hand.
NextNotify ==
  \/ \E event \in Events : ChangeFiles(<<event>>)
  \/ \E w \in DOMAIN watchers : WatcherConfigRead(w)
  \/ \E w \in DOMAIN watchers : WatcherRealPath(w)
  \/ \E configFilePath \in project, notifyOnSuccess \in BOOLEAN :
       StartRun(configFilePath, notifyOnSuccess)
  \/ \E selection \in Selections(triggers) : RunTransformation(selection)
  \/ \E r \in DOMAIN runs : ConfigRead(r)
  \/ \E r \in DOMAIN runs : DecompRead(r)
  \/ \E r \in DOMAIN runs : FuncRealPath(r)
  \/ \E r \in DOMAIN runs : DecompRealPath(r)
  \/ \E r \in DOMAIN runs : Transform(r)
  \/ \E r \in DOMAIN runs : OutputWritten(r)
  \/ \E r \in DOMAIN runs : PostprocessExec(r)
  \/ \E r \in DOMAIN runs : ExecCallback(r)

SpecNotify == InitNotify /\ [][NextNotify]_vars

\* ------------------------------------------------------------------ claims
Runs == DOMAIN runs

\* The child of run q has been started, has not exited and was not killed on purpose.
LiveUnkilled(q) == Live(runs[q]) /\ ~runs[q].child.killIssued

LiveUnkilledOf(configFilePath) ==
  { q \in Runs : LiveUnkilled(q) /\ runs[q].configFilePath = configFilePath }

\* C1: every configuration file has at most one post-process child that is
\* started, not exited and not deliberately killed.
C1_AtMostOneLiveChildPerConfig ==
  \A configFilePath \in project : Cardinality(LiveUnkilledOf(configFilePath)) <= 1

\* Run r goes from the end of its write to the start of its child in this step:
\* it looks up the registry and kills what it finds.
Launches(r) == runs[r].pc = "write" /\ runs'[r].pc = "exec"

\* C2: a launch for configuration A never kills a child of another configuration B.
C2_LaunchKillsOnlyOwnConfig ==
  [][\A q \in Runs :
       (LiveUnkilled(q) /\ runs'[q].child.killIssued)
         => \E r \in Runs :
              Launches(r) /\ runs[r].configFilePath = runs[q].configFilePath]_vars

\* C3: a live child that was not deliberately killed is the one registered for
\* its configuration (so a superseded child's exit leaves the newer
\* registration in place).
C3_LiveChildIsRegistered ==
  \A q \in Runs :
    LiveUnkilled(q)
      => /\ RegistryKey(runs[q].configFilePath) \in DOMAIN runningPostprocessors
         /\ runningPostprocessors[RegistryKey(runs[q].configFilePath)] = runs[q].child.pid

\* The exec callback of run q runs in this step and gets an error.
ExitsWithFailure(q) ==
  Live(runs[q]) /\ runs'[q].child.state = "exited" /\ runs'[q].child.error

\* C4: when a child whose pid is in killedPostprocessors exits with a failure
\* status, nothing is reported and the pid leaves killedPostprocessors.
C4_KilledFailureSwallowed ==
  [][\A q \in Runs :
       (ExitsWithFailure(q) /\ runs[q].child.pid \in killedPostprocessors)
         => /\ \A r \in Runs : runs'[r].notes = runs[r].notes
            /\ runs[q].child.pid \notin killedPostprocessors']_vars

C4_Witness ==
  \E q \in Runs :
    /\ runs[q].child.state = "exited"
    /\ runs[q].child.error
    /\ runs[q].child.killIssued
    /\ runs[q].notes = <<>>
    /\ runs[q].child.pid \notin killedPostprocessors

PostprocessErrors(run) ==
  SelectSeq(run.notes,
            LAMBDA n : n.via = "showError"
                       /\ n.message = <<"Error post-processing result of Fudomo transformation">>)

\* C5: a child that was never deliberately killed and exits with a failure
\* status produces exactly one error report.
C5_UnkilledFailureReported ==
  \A q \in Runs :
    (runs[q].child.state = "exited" /\ runs[q].child.error /\ ~runs[q].child.killIssued)
      => Len(PostprocessErrors(runs[q])) = 1

\* The live child that the registry entry of run r's configuration names.
RegisteredChildOf(r) ==
  { q \in Runs :
      /\ Live(runs[q])
      /\ runs[q].configFilePath = runs[r].configFilePath
      /\ RegistryKey(runs[r].configFilePath) \in DOMAIN runningPostprocessors
      /\ runningPostprocessors[RegistryKey(runs[r].configFilePath)] = runs[q].child.pid }

\* C6: a launch that finds a registered child of its configuration records the
\* old pid in killedPostprocessors and issues the kill before the new child is
\* started; the start then overwrites the registry entry with the new pid.
C6_KillBeforeStart ==
  /\ [](\A r \in Runs :
          runs[r].pc = "exec"
            => /\ runs[r].child = NoChild
               /\ \A q \in RegisteredChildOf(r) :
                    /\ runs[q].child.pid \in killedPostprocessors
                    /\ runs[q].child.killIssued)
  /\ [][\A r \in Runs :
          (runs[r].pc = "exec" /\ runs'[r].pc # "exec")
            => /\ Live(runs'[r])
               /\ runningPostprocessors'[RegistryKey(runs[r].configFilePath)]
                    = runs'[r].child.pid]_vars

C6_Witness ==
  \E r \in Runs : \E q \in Runs \ {r} :
    /\ runs[q].configFilePath = runs[r].configFilePath
    /\ Live(runs[q]) /\ runs[q].child.killIssued
    /\ runs[q].child.pid \in killedPostprocessors
    /\ Live(runs[r]) /\ ~runs[r].child.killIssued
    /\ runningPostprocessors[RegistryKey(runs[r].configFilePath)] = runs[r].child.pid

\* C7: the exit of a child that a later launch of the same configuration
\* superseded produces no notification, neither error nor success.
C7_SupersededChildIsSilent ==
  \A q \in Runs :
    (runs[q].child.state = "exited" /\ runs[q].child.killIssued) => runs[q].notes = <<>>

\* The configuration document of run r sets only some of the required keys.
MissingKeys(r) ==
  LET disk == Disk(runs[r].configFilePath)
  IN IF disk.exists /\ disk.yaml = "map" THEN Required \ disk.keys ELSE {}

\* C8: a run of a configuration that misses a required key fails with an error
\* naming a missing key, and touches no file but the configuration file.
C8_MissingKeyNoOtherIo ==
  \A r \in Runs :
    MissingKeys(r) # {}
      => /\ runs[r].io \subseteq {<<"read", runs[r].configFilePath>>}
         /\ runs[r].pc = "done"
              => /\ Len(runs[r].notes) = 1
                 /\ runs[r].notes[1].via = "showError"
                 /\ \E key \in MissingKeys(r) :
                      runs[r].notes[1].detail = NotSetError(key).message

\* The backend registry resolves the configuration on disk to the native
\* JavaScript backend.
ResolvesToNative(disk) ==
  IF disk.runnerId # Undefined
  THEN getRunnerClassById(disk.runnerId) = "javascript"
  ELSE getRunnerClassByFileExtension(Slice1(Extname(disk.functions))) = "javascript"

\* The run is past the selection of its RunnerClass (line 404).
PastSelection(r) ==
  runs[r].pc \in {"funcRealPath", "decompRealPath", "transform", "write", "exec", "child"}

\* The run is past new RunnerClass(...) (line 415).
PastConstruction(r) ==
  runs[r].pc \in {"decompRealPath", "transform", "write", "exec", "child"}

\* C9: a configuration that resolves to the native JavaScript backend gets the
\* sandboxed javascriptvm class, selected and constructed, never javascript.
C9_NativeBackendIsSandboxed ==
  \A r \in Runs :
    ResolvesToNative(Disk(runs[r].configFilePath))
      => /\ runs[r].RunnerClass \in {NullClass, "javascriptvm"}
         /\ runs[r].functionRunner \in {NullClass, "javascriptvm"}
         /\ PastSelection(r) => runs[r].RunnerClass = "javascriptvm"
         /\ PastConstruction(r) => runs[r].functionRunner = "javascriptvm"

C9_Witness ==
  \E r \in Runs :
    /\ Disk(runs[r].configFilePath).runnerId = Undefined
    /\ Disk(runs[r].configFilePath).functions = F_js
    /\ runs[r].RunnerClass = "javascriptvm"
    /\ runs[r].functionRunner = "javascriptvm"
    /\ runs[r].pc = "done"

\* sub occurs in str as a run of consecutive elements.
Infix(sub, str) ==
  \E i \in 0..(Len(str) - Len(sub)) : SubSeq(str, i + 1, i + Len(sub)) = sub

\* What failed to resolve: the runnerId, or the extension when there is none.
Unresolved(disk) ==
  IF disk.runnerId # Undefined THEN <<disk.runnerId>> ELSE Slice1(Extname(disk.functions))

\* C10: when no backend matches, the run ends with exactly one run-error
\* report that carries the runnerId (or the extension), the transformation is
\* not executed and the output file is not written.
C10_RunnerNotFoundReported ==
  \A r \in Runs :
    runs[r].RunnerClass = Undefined
      => /\ runs[r].pc = "done"
         /\ Len(runs[r].notes) = 1
         /\ runs[r].notes[1].via = "showError"
         /\ Infix(Unresolved(Disk(runs[r].configFilePath)), runs[r].notes[1].detail)
         /\ \A e \in runs[r].io : e[1] \notin {"transform", "write"}

C10_Witness ==
  \E r \in Runs :
    /\ runs[r].RunnerClass = Undefined
    /\ Disk(runs[r].configFilePath).runnerId = "nope"
    /\ runs[r].pc = "done"
    /\ Len(runs[r].notes) = 1
    /\ <<"read", DecompFile(runs[r].configFilePath)>> \in runs[r].io

\* Run r has the parse result of its decomposition (line 418 returned).
HasParseResult(r) ==
  /\ <<"getRealPath", DecompFile(runs[r].configFilePath)>> \in runs[r].io
  /\ runs[r].pc # "decompRealPath"
  /\ Disk(runs[r].configFilePath).decompRealPath
  /\ Disk(runs[r].configFilePath).parse # "throws"

\* C11: a run whose parsed decomposition has hasError set never calls
\* transform, never writes the output and never launches a post-process; it
\* ends with one definition-error notification that opens the decomposition
\* file, and with no run-error or compute-exception report.
C11_DefinitionErrorStopsRun ==
  \A r \in Runs :
    Disk(runs[r].configFilePath).parse = "hasError"
      => /\ \A e \in runs[r].io : e[1] \notin {"transform", "write"}
         /\ runs[r].child = NoChild
         /\ runs[r].pc \notin {"transform", "write", "exec", "child"}
         /\ HasParseResult(r)
              => /\ runs[r].pc = "done"
                 /\ runs[r].notes = <<definitionErrorNotification(runs[r].configFilePath)>>
                 /\ runs[r].notes[1].open = DecompFile(runs[r].configFilePath)

C11_Witness ==
  \E r \in Runs :
    /\ Disk(runs[r].configFilePath).parse = "hasError"
    /\ HasParseResult(r)
    /\ runs[r].pc = "done"
    /\ Len(runs[r].notes) = 1
    /\ runs[r].notes[1].via = "addError"

\* C17: the post-process child is started with the directory of the
\* configured output file as its working directory, also when the output lies
\* in another directory than the configuration file.
C17_ChildCwdIsOutputDir ==
  \A r \in Runs :
    runs[r].child.state # "none" => runs[r].child.cwd = OutputDir(runs[r].configFilePath)

\* The write of run r's output was attempted and failed.
WriteFailed(r) ==
  /\ <<"write", OutputFile(runs[r].configFilePath)>> \in runs[r].io
  /\ ~Disk(runs[r].configFilePath).writable
  /\ runs[r].pc = "done"

\* C18: when writing the output fails, the run ends with one run-error report
\* that offers to open the output file.
C18_WriteFailureOpensOutput ==
  \A r \in Runs :
    WriteFailed(r)
      => /\ Len(runs[r].notes) = 1
         /\ runs[r].notes[1].via = "showError"
         /\ runs[r].notes[1].open = OutputFile(runs[r].configFilePath)

\* The configuration file cannot be read, or parsed, or misses a required key.
ConfigUnusable(disk) == ~disk.exists \/ disk.yaml # "map" \/ disk.keys # Required

\* C19: a failure reading or parsing the configuration (a missing required
\* key included) is reported with the configuration file as the file to open;
\* a failure loading the input model is reported with the data file as the file
\* to open.
C19_ConfigAndDataFailuresOpenTheirFile ==
  \A r \in Runs :
    LET path == runs[r].configFilePath
        disk == Disk(path)
    IN runs[r].pc = "done"
         => /\ ConfigUnusable(disk)
                 => /\ Len(runs[r].notes) = 1
                    /\ runs[r].notes[1].via = "showError"
                    /\ runs[r].notes[1].open = path
            /\ (~ConfigUnusable(disk) /\ ~disk.dataLoads)
                 => /\ Len(runs[r].notes) = 1
                    /\ runs[r].notes[1].via = "showError"
                    /\ runs[r].notes[1].message = <<"Error while", "loading data">>
                    /\ runs[r].notes[1].open = DataFile(path)

C19_Witness ==
  \E r \in Runs :
    /\ ~ConfigUnusable(Disk(runs[r].configFilePath))
    /\ ~Disk(runs[r].configFilePath).dataLoads
    /\ runs[r].pc = "done"
    /\ <<"loadModel", DataFile(runs[r].configFilePath)>> \in runs[r].io
    /\ runs[r].notes[1].open = DataFile(runs[r].configFilePath)

\* The activities of the steps that come before the decomposition source is
\* resolved and parsed (lines 337-412).
EarlierActivities ==
  { "reading config file", "parsing config file", "loading data",
    "loading decomposition file", "creating decomposition function runner",
    "parsing Fudomo decomposition functions" }

\* Run r failed while resolving or parsing its decomposition source (lines 417-418).
DecompositionParsingFailed(r) ==
  LET disk == Disk(runs[r].configFilePath)
  IN /\ <<"getRealPath", DecompFile(runs[r].configFilePath)>> \in runs[r].io
     /\ runs[r].pc = "done"
     /\ ~disk.decompRealPath \/ disk.parse = "throws"

\* C20: the phase is set before every operation that can fail: a failure
\* thrown while the decomposition source is resolved or parsed is reported
\* under a phase of its own, never under the phase of an earlier step.
C20_FailureUnderOwnPhase ==
  \A r \in Runs :
    DecompositionParsingFailed(r)
      => /\ Len(runs[r].notes) = 1
         /\ runs[r].notes[1].message[2] \notin EarlierActivities
         /\ runs[r].notes[1].open # FuncFile(runs[r].configFilePath)

\* The output of run r is written and, if the configuration has a
\* post-process, its child has ended without error.
Succeeded(r) ==
  /\ runs[r].pc = "done"
  /\ <<"write", OutputFile(runs[r].configFilePath)>> \in runs[r].io
  /\ Disk(runs[r].configFilePath).writable
  /\ \/ runs[r].config.postprocess = Undefined
     \/ runs[r].child.state = "exited" /\ ~runs[r].child.error

Reported(r, via) == \E i \in DOMAIN runs[r].notes : runs[r].notes[i].via = via

\* The outcomes run r has produced.
Outcomes(r) ==
  (IF Succeeded(r) THEN {"success"} ELSE {})
    \cup (IF Reported(r, "addError") THEN {"definition-error"} ELSE {})
    \cup (IF Reported(r, "showError") THEN {"run-error"} ELSE {})
    \cup (IF Reported(r, "showFudomoComputeException") THEN {"compute-exception"} ELSE {})

\* C12 as stated: every invocation ends in exactly one of the four outcomes;
\* none produces two outcome reports and none ends without any outcome.
C12_ExactlyOneOutcome ==
  \A r \in Runs :
    /\ Len(runs[r].notes) <= 1
    /\ runs[r].pc = "done" => Cardinality(Outcomes(r)) = 1

\* C12, amended: no invocation produces two outcome reports or two outcomes;
\* an invocation ends without any outcome only when its post-process child
\* ended with a failure status that the exec callback dropped.
C12_AtMostOneOutcome ==
  \A r \in Runs :
    /\ Len(runs[r].notes) <= 1
    /\ Cardinality(Outcomes(r)) <= 1
    /\ (runs[r].pc = "done" /\ Outcomes(r) = {})
         => /\ runs[r].child.state = "exited"
            /\ runs[r].child.error
    /\ (runs[r].pc = "done" /\ runs[r].child.state = "none")
         => Cardinality(Outcomes(r)) = 1

C12_Witness ==
  \E r \in Runs : \E q \in Runs \ {r} :
    /\ runs[r].pc = "done" /\ Outcomes(r) = {}
    /\ runs[q].pc = "done" /\ Outcomes(q) = {"success"}
    /\ runs[q].child.state = "exited"

\* C13: runTransformation starts a run for every selected configuration, and a
\* failure of one run neither changes nor blocks another: whenever a run is
\* not over, its next continuation can run, whatever became of the others.
C13_SelectedRunsAreIndependent ==
  /\ [][\A selection \in Selections(triggers) :
          RunTransformation(selection)
            => /\ Len(runs') = Len(runs) + Cardinality(selection)
               /\ \A p \in selection :
                    \E i \in (Len(runs) + 1)..Len(runs') : runs'[i] = NewRun(p, TRUE)]_vars
  /\ [][\A r \in Runs :
          (runs[r].pc # "done" /\ runs'[r].pc = "done" /\ Outcomes(r)' # {"success"})
            => \A q \in Runs \ {r} : runs'[q] = runs[q]]_vars
  /\ [](\A r \in Runs :
          (runs[r].pc # "done" /\ NoExecPending) => ENABLED RunStep(r))

C13_Witness ==
  \E r \in Runs : \E q \in Runs \ {r} :
    /\ runs[r].notifyOnSuccess /\ runs[q].notifyOnSuccess
    /\ runs[r].pc = "done" /\ Outcomes(r) = {"run-error"}
    /\ runs[q].pc = "done" /\ Outcomes(q) = {"success"}
    /\ Len(runs[q].notes) = 1

Watchers == DOMAIN watchers

\* Handler invocation w called runTransformationConfigFile for configPath.
Called(w, configPath) ==
  \E i \in DOMAIN watchers[w].calls : watchers[w].calls[i] = configPath

Registered(w) == Range(watchers[w].autoTransformPaths)

CanBeReadAndParsed(configPath) == Disk(configPath).exists /\ Disk(configPath).yaml = "map"

\* The configuration names a data file that exists.
HasDataFile(configPath) ==
  "data" \in Disk(configPath).keys /\ Disk(configPath).dataRealPath # "missing"

\* The batch of w holds a created, modified or renamed event of the data file
\* of configPath, under whatever spelling.
DataFileChanged(w, configPath) ==
  \E i \in DOMAIN watchers[w].events :
    /\ Triggering(watchers[w].events[i].action)
    /\ RealPath(watchers[w].events[i].path) = RealPath(DataFile(configPath))

\* C14: for a batch of change events the watcher calls
\* runTransformationConfigFile, with notifyOnSuccess = false, for a registered
\* configuration if and only if the configuration can be read and parsed and
\* the batch holds a created, modified or renamed event of its data file.
C14_RunsExactlyChangedConfigs ==
  /\ \A r \in Runs : ~runs[r].notifyOnSuccess
  /\ \A w \in Watchers :
       watchers[w].pc = "done"
         => /\ \A i \in DOMAIN watchers[w].calls : watchers[w].calls[i] \in Registered(w)
            /\ \A configPath \in Registered(w) :
                 Called(w, configPath)
                   <=> /\ CanBeReadAndParsed(configPath)
                       /\ HasDataFile(configPath)
                       /\ DataFileChanged(w, configPath)

\* C15: an event whose raw path is another spelling (through a symlink) of a
\* registered configuration's data file still triggers that configuration.
C15_SymlinkSpellingMatches ==
  \A w \in Watchers :
    watchers[w].pc = "done"
      => \A configPath \in Registered(w) : \A i \in DOMAIN watchers[w].events :
           LET event == watchers[w].events[i]
           IN (/\ Triggering(event.action)
               /\ event.path # RealPath(event.path)
               /\ RealPath(event.path) = RealPath(DataFile(configPath))
               /\ CanBeReadAndParsed(configPath))
                => Called(w, configPath)

\* Resolving the registered configuration to its data file fails.
ResolutionFails(configPath) ==
  ~CanBeReadAndParsed(configPath) \/ ~HasDataFile(configPath)

\* C16: in a batch, every registered configuration whose resolution fails is
\* reported, and every other registered configuration is still resolved and,
\* if its data file changed, run.
C16_FailureReportedOthersEvaluated ==
  \A w \in Watchers :
    watchers[w].pc = "done"
      => /\ Len(watchers[w].notes)
              = Cardinality({ i \in DOMAIN watchers[w].autoTransformPaths :
                                ResolutionFails(watchers[w].autoTransformPaths[i]) })
         /\ \A configPath \in Registered(w) :
              ~ResolutionFails(configPath)
                => /\ <<"getRealPath", DataFile(configPath)>> \in watchers[w].io
                   /\ (\E i \in DOMAIN watchers[w].events :
                          /\ Triggering(watchers[w].events[i].action)
                          /\ watchers[w].events[i].path = RealPath(DataFile(configPath)))
                        => Called(w, configPath)

\* The values a run of configFilePath assigns to its phase (lines 337-435).
OwnPhases(configFilePath) ==
  { Phase("reading config file", configFilePath),
    Phase("parsing config file", configFilePath),
    Phase("loading data", DataFile(configFilePath)),
    PhaseString("loading decomposition file"),
    Phase("creating decomposition function runner", configFilePath),
    Phase("parsing Fudomo decomposition functions", FuncFile(configFilePath)),
    Phase("running Fudomo transformation", DecompFile(configFilePath)),
    PhaseString("writing Fudomo transformation result to destination file") }

\* The run-error reports of run r that handleTransformError made.
PhaseReports(r) ==
  { i \in DOMAIN runs[r].notes :
      runs[r].notes[i].via = "showError" /\ runs[r].notes[i].message[1] = "Error while" }

\* C21: every run has a phase of its own: the phase reported with a run's
\* failure is the one that run set last, and no step of another run changes it.
C21_PhaseIsPerRun ==
  /\ [](\A r \in Runs :
          /\ runs[r].phase \in OwnPhases(runs[r].configFilePath)
          /\ \A i \in PhaseReports(r) :
               /\ runs[r].notes[i].message[2] = runs[r].phase.activity
               /\ runs[r].notes[i].open
                    = (IF runs[r].phase.instance = "Phase"
                       THEN runs[r].phase.openablePath ELSE Null))
  /\ [][\A r \in Runs :
          runs'[r].phase # runs[r].phase => runs'[r].pc # runs[r].pc]_vars

C21_Witness ==
  \E r \in Runs : \E q \in Runs \ {r} :
    /\ runs[r].configFilePath # runs[q].configFilePath
    /\ PhaseReports(r) # {} /\ PhaseReports(q) # {}
    /\ runs[r].phase.activity = "reading config file"
    /\ runs[q].phase.activity = "writing Fudomo transformation result to destination file"
    /\ r < q

\* C24: a busy indicator is created for each post-process child at its launch
\* and disposed in that child's exit callback: the undisposed indicators are
\* those of the launched children whose callback has not run, also when the
\* launch fails between reportBusy and the start of the child.
C24_BusyIndicatorMatchesLiveChild ==
  /\ \A r \in Runs : (runs[r].busyMessage = "shown") <=> Live(runs[r])
  /\ Cardinality({ r \in Runs : runs[r].busyMessage = "shown" })
       = Cardinality({ r \in Runs : Live(runs[r]) })

\* The output of run r is written and its configuration has a post-process.
WrittenWithPostprocess(r) ==
  /\ runs[r].pc \in {"child", "done"}
  /\ <<"write", OutputFile(runs[r].configFilePath)>> \in runs[r].io
  /\ Disk(runs[r].configFilePath).writable
  /\ runs[r].config.postprocess # Undefined

\* Run r is at its launch in this step: it kills the registered child, or
\* calls child_process.exec.
LaunchStep(r) ==
  \/ Launches(r)
  \/ runs[r].pc = "exec" /\ runs'[r].pc # "exec"

\* A launch step of run r changes of the other runs nothing but the kill mark
\* of a live child.
LaunchSparesOtherRuns(r) ==
  \A q \in Runs \ {r} :
    /\ runs'[q] = [runs[q] EXCEPT !.child.killIssued = runs'[q].child.killIssued]
    /\ runs'[q].child.killIssued # runs[q].child.killIssued => Live(runs[q])

\* C22 as stated: every run that has written its output with postprocess
\* configured has started a child, and no launch ends a load, a transformation
\* or a write of any run.
C22_EveryWrittenRunStartsChild ==
  /\ [](\A r \in Runs : WrittenWithPostprocess(r) => runs[r].child.state # "none")
  /\ [][\A r \in Runs : LaunchStep(r) => LaunchSparesOtherRuns(r)]_vars

\* C22, amended: a run that has written its output with postprocess
\* configured goes to its launch at once and the launch is never held back,
\* whether or not an earlier child is live; the launch starts a child unless
\* child_process.exec itself throws; no launch ends a load, a transformation
\* or a write of any run.
C22_LaunchNeverQueuedOrRejected ==
  /\ [][\A r \in Runs :
          (/\ runs[r].pc = "write" /\ runs'[r].pc # "write"
           /\ Disk(runs[r].configFilePath).writable
           /\ runs[r].config.postprocess # Undefined)
            => runs'[r].pc = "exec"]_vars
  /\ [](\A r \in Runs : runs[r].pc = "exec" => ENABLED PostprocessExec(r))
  /\ [][\A r \in Runs :
          (runs[r].pc = "exec" /\ runs'[r].pc # "exec")
            => IF Disk(runs[r].configFilePath).exec = "throws"
               THEN runs'[r].pc = "done" /\ runs'[r].child = NoChild
               ELSE Live(runs'[r])]_vars
  /\ [](\A r \in Runs :
          WrittenWithPostprocess(r)
            => (runs[r].child.state = "none"
                  <=> Disk(runs[r].configFilePath).exec = "throws"))
  /\ [][\A r \in Runs : LaunchStep(r) => LaunchSparesOtherRuns(r)]_vars

C22_Witness ==
  \E r \in Runs : \E q \in Runs \ {r} :
    /\ Live(runs[q]) /\ runs[q].child.killIssued
    /\ Live(runs[r]) /\ ~runs[r].child.killIssued
    /\ q < r

\* The exit callback of run r runs in this step.
ExitStep(r) == runs[r].pc = "child" /\ runs'[r].pc = "done"

\* C23: every exit of a child removes the registration of its config file,
\* whatever the exit status and whether or not the child was killed; an entry
\* of runningPostprocessors exists only while some child is live; and when
\* every launched child exits, once no further run is started
\* runningPostprocessors has no entry and keeps none.
C23_RegistryDrains ==
  /\ [][\A r \in Runs :
          ExitStep(r)
            => RegistryKey(runs[r].configFilePath) \notin DOMAIN runningPostprocessors']_vars
  /\ []((\A r \in Runs : ~Live(runs[r])) => DOMAIN runningPostprocessors = {})
  /\ <>[](DOMAIN runningPostprocessors = {})

C23_Witness ==
  /\ DOMAIN runningPostprocessors = {}
  /\ \E r \in Runs : \E q \in Runs \ {r} :
       /\ runs[q].child.state = "exited" /\ runs[q].child.killIssued
       /\ runs[r].child.state = "exited" /\ ~runs[r].child.killIssued

\* C29: the promise returned by an invocation of runTransformationConfigFile
\* (and so the Promise.all of runTransformation) resolves only after the
\* invocation has produced its outcome: a resolved promise belongs to a run
\* that wrote and post-processed its output or reported its failure.
C29_ResolvedOnlyAfterOutcome ==
  \A r \in Runs : runs[r].resolved => runs[r].pc = "done"

\* The invocations for the given config file, and the one started last.
RunsOf(configFilePath) == { r \in Runs : runs[r].configFilePath = configFilePath }
LastStarted(configFilePath) ==
  CHOOSE r \in RunsOf(configFilePath) : \A q \in RunsOf(configFilePath) : q <= r

\* The invocation is through with writing and launching.
Completed(r) == runs[r].pc \in {"child", "done"}

\* C30: when overlapping invocations for one config file have all completed,
\* the output file holds the transformation result of the invocation that was
\* started last, and a child still registered for the config file is the one
\* that invocation launched.
C30_LastStartedWins ==
  \A configFilePath \in project :
    (/\ Cardinality(RunsOf(configFilePath)) >= 2
     /\ \A r \in RunsOf(configFilePath) : Completed(r))
      => LET last == LastStarted(configFilePath)
         IN /\ OutputFile(configFilePath) \in DOMAIN files.output
                   => files.output[OutputFile(configFilePath)] = last
            /\ RegistryKey(configFilePath) \in DOMAIN runningPostprocessors
                   => /\ Live(runs[last])
                      /\ runningPostprocessors[RegistryKey(configFilePath)] = runs[last].child.pid

\* The step is one of enableAutoTransform or disableAutoTransform: the
\* registry becomes what the operation makes of it and nothing else changes.
RegistryOperation ==
  /\ \E selection \in SUBSET TreeViewPaths :
       \/ autoTransformPaths' = AddKeys(autoTransformPaths, SelectedPaths(selection))
       \/ autoTransformPaths' = RemoveKeys(autoTransformPaths, SelectedPaths(selection))
  /\ UNCHANGED <<batches, watchers, project, generatorVars, linterVars, files, triggers, runs,
                 runningPostprocessors, killedPostprocessors>>

\* C25: the auto-transform registry changes only in a step of
\* enableAutoTransform or disableAutoTransform; a step of a run, an exit
\* callback, a change-event batch or a continuation of its handler (also for a
\* registered configuration that cannot be parsed) leaves every entry alone.
C25_RegistryChangedOnlyByEnableDisable ==
  /\ [][autoTransformPaths' # autoTransformPaths => RegistryOperation]_vars
  /\ [][(runs' # runs \/ watchers' # watchers \/ batches' # batches
           \/ runningPostprocessors' # runningPostprocessors
           \/ killedPostprocessors' # killedPostprocessors)
          => autoTransformPaths' = autoTransformPaths]_vars

C25_Witness ==
  /\ autoTransformPaths = SelectedPaths(project)
  /\ \E w \in DOMAIN watchers :
       /\ watchers[w].pc = "done"
       /\ watchers[w].autoTransformPaths = SelectedPaths(project)
       /\ watchers[w].notes # <<>>
  /\ \E r \in Runs : runs[r].child.state = "exited"

\* Run r has told the user of its success.
SuccessNotified(r) == Reported(r, "showSuccess")

\* The runs that a continuation of the change handler starts in this step.
StartedByWatcher ==
  IF watchers' # watchers THEN (DOMAIN runs') \ (DOMAIN runs) ELSE {}

\* C28: a run notifies success only if it was called with notifyOnSuccess,
\* its output file has been written and, with postprocess configured, its
\* child has exited without error; the notification is made once, in the
\* step that completes the last of these or later, never before; and the runs
\* the change handler starts are called without notifyOnSuccess, so they
\* never notify success.
C28_SuccessOnlyAfterWriteAndExit ==
  /\ [](\A r \in Runs :
          SuccessNotified(r)
            => /\ runs[r].notifyOnSuccess
               /\ OutputFile(runs[r].configFilePath) \in DOMAIN files.output
               /\ <<"write", OutputFile(runs[r].configFilePath)>> \in runs[r].io
               /\ runs[r].config.postprocess # Undefined
                     => runs[r].child.state = "exited" /\ ~runs[r].child.error
               /\ Cardinality({ i \in DOMAIN runs[r].notes :
                                   runs[r].notes[i].via = "showSuccess" }) = 1)
  /\ [][\A r \in StartedByWatcher : ~runs'[r].notifyOnSuccess]_vars
  /\ [](\A r \in Runs : ~runs[r].notifyOnSuccess => ~SuccessNotified(r))

C28_Witness ==
  \E r \in Runs : \E q \in Runs \ {r} :
    /\ runs[q].pc = "done" /\ ~runs[q].notifyOnSuccess
    /\ runs[q].child.state = "exited" /\ ~runs[q].child.error
    /\ \E w \in DOMAIN watchers : watchers[w].calls # <<>>
    /\ runs[r].pc = "done" /\ SuccessNotified(r)
    /\ runs[r].child.state = "exited"

\* The parsed config of a run holds what the content holds.
ParsedFrom(config, content) ==
  /\ config.keys = content.keys
  /\ config.runnerId = content.runnerId
  /\ config.functions = content.functions
  /\ config.postprocess = content.postprocess

\* Run r parses its config in this step.
ParseStep(r) == ~runs[r].config.parsed /\ runs'[r].config.parsed

\* C26: a run parses what the config file holds at the moment it reads it,
\* also when the file was edited after an earlier run read it; the config file
\* changes only when the user saves it, never in a step of a run, and no run
\* writes to it; a change a run makes to its parsed config (the absolute
\* functions path) changes nothing in the parsed config of another run.
C26_ConfigReadAfreshNeverWritten ==
  /\ [][\A r \in Runs : ParseStep(r)
           => ParsedFrom(runs'[r].config, Disk(runs[r].configFilePath))]_vars
  /\ [][runs' # runs => files'.config = files.config]_vars
  /\ [](\A r \in Runs : <<"write", runs[r].configFilePath>> \notin runs[r].io)
  /\ [][\A r \in Runs : \A q \in Runs \ {r} :
           runs'[r].config # runs[r].config => runs'[q].config = runs[q].config]_vars

C26_Witness ==
  \E r \in Runs : \E q \in Runs \ {r} :
    /\ q < r
    /\ runs[q].pc = "done" /\ runs[q].child.state = "exited"
    /\ runs[r].pc = "done" /\ runs[r].config.parsed
    /\ runs[r].config.postprocess = Undefined
    /\ runs[r].config.functions = <<"/">> \o F_py
    /\ runs[r].child.state = "none"
    /\ OutputFile(runs[r].configFilePath) \in DOMAIN files.output

\* What validateData has logged for the config files it is through with.
ValidationLog ==
  UNION { {v} \X (DOMAIN validations[v].log) : v \in DOMAIN validations }

\* The notifications validateData made for its k-th config file.
ValidationNotes(v, k) ==
  Cardinality({ j \in 1..k : validations[v].log[j].error # Null })

\* C27: when loadModel throws an error that carries markers, the messages set
\* on the linter for the data file are those markers, one message per marker
\* and in the markers' order, no DataValidator is run and no error is
\* notified; when it throws an error without markers, the error is notified
\* as 'Error validating data file' and no messages are set.
C27_MarkersBecomeLinterMessages ==
  \A vk \in ValidationLog :
    LET validation == validations[vk[1]]
        entry == validation.log[vk[2]]
        file == DataFile(entry.path)
    IN /\ Len(validation.notes) = ValidationNotes(vk[1], Len(validation.log))
       /\ entry.markers # <<>>
            => /\ entry.set /\ entry.error = Null /\ ~entry.validated
               /\ Len(entry.messages) = Len(entry.markers)
               /\ \A i \in DOMAIN entry.markers :
                    /\ entry.messages[i].severity = "error"
                    /\ entry.messages[i].location = [file |-> file, position |-> entry.markers[i].location]
                    /\ entry.messages[i].excerpt = entry.markers[i].message
                    /\ entry.messages[i].description = entry.markers[i].context
       /\ entry.error = <<"model load error">>
            => /\ ~entry.set /\ ~entry.validated
               /\ validation.notes[ValidationNotes(vk[1], vk[2])]
                     = showError(<<"Error validating data file">>, <<"model load error">>, Null)
       /\ (entry.set /\ vk[2] = Len(validation.log)
              /\ \A w \in DOMAIN validations : validations[w].pc = "done")
            => file \in DOMAIN linterMessages

C27_Witness ==
  \E v \in DOMAIN validations :
    /\ validations[v].pc = "done"
    /\ Len(validations[v].notes) = 2
    /\ \E k \in DOMAIN validations[v].log :
         /\ Len(validations[v].log[k].markers) = MaxMarkers
         /\ validations[v].log[k].markers[1] # validations[v].log[k].markers[2]
         /\ linterMessages[DataFile(validations[v].log[k].path)] = validations[v].log[k].messages

\* C31: whenever no post-process child is live, killedPostprocessors is
\* empty: the exit callback of a child removes its pid from the set, whatever
\* the exit status.
C31_KilledEmptyWhenNoChildLive ==
  (\A r \in Runs : ~Live(runs[r])) => killedPostprocessors = {}

\* C32: within one change-event batch the handler calls the run pipeline at
\* most once for a registered configuration, however many created, modified
\* or renamed events for its data file the batch holds.
C32_AtMostOneRunPerConfigAndBatch ==
  \A w \in DOMAIN watchers :
    \A i, j \in DOMAIN watchers[w].calls :
      watchers[w].calls[i] = watchers[w].calls[j] => i = j

\* The config files an invocation of the handler has read.
ConfigsRead(watcher) ==
  { p \in project : <<"read", p>> \in watcher.io }

ExecutionFailed(r, outcome) ==
  /\ runs[r].pc = "done"
  /\ <<"transform", DecompFile(runs[r].configFilePath)>> \in runs[r].io
  /\ Disk(runs[r].configFilePath).transform = outcome

\* C34: a FudomoComputeException of the transformation is reported by the
\* compute-exception renderer and by nothing else; its description is the
\* python-executable remediation exactly when its cause is an
\* UnsupportedPythonVersionError; any other error of the transformation is
\* reported once by showError as 'Error while running Fudomo transformation',
\* with the decomposition file to open.
C34_ComputeExceptionRendering ==
  \A r \in Runs :
    /\ ExecutionFailed(r, "computeException")
         => /\ Len(runs[r].notes) = 1
            /\ runs[r].notes[1].via = "showFudomoComputeException"
            /\ runs[r].notes[1].detail = <<"html", "compute exception">>
    /\ ExecutionFailed(r, "unsupportedPython")
         => /\ Len(runs[r].notes) = 1
            /\ runs[r].notes[1].via = "showFudomoComputeException"
            /\ runs[r].notes[1].detail = PythonRemediation
    /\ ExecutionFailed(r, "error")
         => runs[r].notes
              = <<showError(<<"Error while", "running Fudomo transformation">>,
                            <<"transform error">>, DecompFile(runs[r].configFilePath))>>

C34_Witness ==
  \E r \in Runs :
    /\ ExecutionFailed(r, "unsupportedPython")
    /\ runs[r].notes[1].detail = PythonRemediation

\* The keys of the registry, and the selected files that are config files.
RegistryKeys(obj) == { obj[i] : i \in DOMAIN obj }
SelectedConfigs(selection) == { p \in selection : p[1] = "config" }

\* C35: enableAutoTransform adds exactly the selected .config paths to the
\* registry and disableAutoTransform removes exactly them; each leaves every
\* other entry (and the order of the entries) as it was, each applied a second
\* time to its result changes nothing, and afterwards allowEnableAutoTransform
\* (after enable) or allowDisableAutoTransform (after disable) is false for
\* the selection.  (A step that leaves the registry as it was and is one of
\* the two operations changes nothing at all, so only the steps that change
\* the registry need the comparison.)
C35_EnableDisableAlgebra ==
  [][autoTransformPaths' # autoTransformPaths =>
     \A selection \in SUBSET TreeViewPaths :
       LET paths == SelectedPaths(selection)
           before == RegistryKeys(autoTransformPaths)
           after == RegistryKeys(autoTransformPaths')
       IN
       /\ EnableAutoTransform(selection) =>
            /\ after = before \cup SelectedConfigs(selection)
            /\ \A i \in DOMAIN autoTransformPaths :
                  autoTransformPaths'[i] = autoTransformPaths[i]
            /\ Len(autoTransformPaths') = Cardinality(after)
            /\ AddKeys(autoTransformPaths', paths) = autoTransformPaths'
            /\ ~(allowEnableAutoTransform(selection))'
       /\ DisableAutoTransform(selection) =>
            /\ after = before \ SelectedConfigs(selection)
            /\ \A i, j \in DOMAIN autoTransformPaths' :
                  i < j => \E k, l \in DOMAIN autoTransformPaths :
                             /\ k < l
                             /\ autoTransformPaths[k] = autoTransformPaths'[i]
                             /\ autoTransformPaths[l] = autoTransformPaths'[j]
            /\ Len(autoTransformPaths') = Cardinality(after)
            /\ RemoveKeys(autoTransformPaths', paths) = autoTransformPaths'
            /\ ~(allowDisableAutoTransform(selection))'
    ]_vars

\* The second config file was registered before the first and both are still
\* registered: nothing is left to enable for the whole tree, and a disable of
\* the first with its data file would leave the second.
C35_Witness ==
  /\ Len(autoTransformPaths) = 2
  /\ autoTransformPaths[2] = ConfigPath(1)
  /\ ~allowEnableAutoTransform(TreeViewPaths)
  /\ allowDisableAutoTransform({ConfigPath(1), DataFile(ConfigPath(1))})
  /\ RemoveKeys(autoTransformPaths, SelectedPaths({ConfigPath(1), DataFile(ConfigPath(1))}))
       = <<autoTransformPaths[1]>>

\* Invocation g has written its skeleton to its destination.
Written(g) ==
  /\ generations[g].pc = "done"
  /\ \E i \in DOMAIN generations[g].notes : generations[g].notes[i].via = "showSuccess"

\* The n-th name of the sequence abc_functions.<ext>, abc_functions2.<ext>, ...
SequenceName(path, extension, n) ==
  DestFileName(path, IF n = 1 THEN 0 ELSE n, extension)

\* The first name of the sequence that does not exist.
FirstFreeName(path, extension) ==
  LET n == CHOOSE n \in 1..(Cardinality(DOMAIN skeletons) + 1) :
             /\ SequenceName(path, extension, n) \notin DOMAIN skeletons
             /\ \A m \in 1..(n - 1) : SequenceName(path, extension, m) \in DOMAIN skeletons
  IN SequenceName(path, extension, n)

\* C36: generateFunctionsForDecompositionFile never overwrites an existing
\* file: no step changes or removes a functions file that exists, the
\* destination that an invocation chooses is the first name of the sequence
\* abc_functions.<ext>, abc_functions2.<ext>, ... that does not exist at that
\* moment, and two invocations for the same decomposition file that have both
\* written did not write to the same destination.
C36_NeverOverwritesExistingFile ==
  /\ [][\A g \in (DOMAIN generations') \ (DOMAIN generations) :
          generations'[g].destFile
            = FirstFreeName(generations'[g].path, generations'[g].language.extension)]_vars
  /\ [][\A name \in DOMAIN skeletons :
          name \in DOMAIN skeletons' /\ skeletons'[name] = skeletons[name]]_vars
  /\ [](\A g, h \in DOMAIN generations :
          (g # h /\ Written(g) /\ Written(h)
             /\ generations[g].path = generations[h].path)
            => generations[g].destFile # generations[h].destFile)

====
